---- MODULE Spec2Model ----
(***************************************************************************)
(* Governance interception layer of gemini-cli-enterprise:                 *)
(* PIIFilter, RiskClassifier, OutputGuardrail, AuditLogger,                *)
(* GovernanceEngine and the two call sites of GeminiClient.                *)
(*                                                                         *)
(* A JavaScript string is modelled as a sequence of one-character strings, *)
(* so that regular expressions, substring tests and concatenation are      *)
(* computed character by character.                                        *)
(***************************************************************************)
EXTENDS Integers, Sequences, FiniteSets, TLC

----------------------------------------------------------------------------
(* Characters and character classes of the regular expressions *)

UpperSeq ==
    <<"A","B","C","D","E","F","G","H","I","J","K","L","M","N","O","P","Q","R","S","T","U","V","W","X","Y","Z">>
LowerSeq ==
    <<"a","b","c","d","e","f","g","h","i","j","k","l","m","n","o","p","q","r","s","t","u","v","w","x","y","z">>
DigitSeq ==
    <<"0","1","2","3","4","5","6","7","8","9">>

Range(s) == {s[i] : i \in 1..Len(s)}

Upper == Range(UpperSeq)

Lower == Range(LowerSeq)

Digit == Range(DigitSeq)

Alpha == Upper \cup Lower

\* \w of a JavaScript regular expression
WordClass == Alpha \cup Digit \cup {"_"}

\* [a-zA-Z0-9._%+-]
EmailLocalClass == Alpha \cup Digit \cup {".", "_", "%", "+", "-"}

\* [a-zA-Z0-9.-]
EmailDomainClass == Alpha \cup Digit \cup {".", "-"}

\* [A-Z0-9]
ProjectSuffixClass == Upper \cup Digit

\* [-.] of the phone pattern, [- ] of the card pattern
PhoneSeps == {"-", "."}

CardSeps == {"-", " "}

----------------------------------------------------------------------------
(* String helpers *)

RECURSIVE RunLen(_, _, _)
\* length of the longest run of characters of class C that starts at t[s]
RunLen(t, s, C) ==
    IF s > Len(t) \/ t[s] \notin C THEN 0 ELSE 1 + RunLen(t, s + 1, C)

IsWordAt(t, i) == i >= 1 /\ i <= Len(t) /\ t[i] \in WordClass

\* \b between t[p-1] and t[p]
AtWordBoundary(t, p) == IsWordAt(t, p - 1) # IsWordAt(t, p)

DigitsAt(t, s, k) ==
    /\ s + k - 1 <= Len(t)
    /\ \A i \in s..(s + k - 1) : t[i] \in Digit

LiteralAt(t, s, lit) ==
    /\ s + Len(lit) - 1 <= Len(t)
    /\ SubSeq(t, s, s + Len(lit) - 1) = lit

\* an optional separator [x]? : consumed when present
SkipOpt(t, p, seps) == IF p <= Len(t) /\ t[p] \in seps THEN p + 1 ELSE p

\* String.prototype.includes
Includes(t, kw) ==
    \E s \in 1..(Len(t) - Len(kw) + 1) : SubSeq(t, s, s + Len(kw) - 1) = kw

ToLowerChar(c) ==
    IF c \in Upper
    THEN LowerSeq[CHOOSE i \in 1..Len(UpperSeq) : UpperSeq[i] = c]
    ELSE c

\* String.prototype.toLowerCase
ToLowerCase(t) == [i \in 1..Len(t) |-> ToLowerChar(t[i])]

RECURSIVE Join(_, _)
\* Array.prototype.join
Join(strs, sep) ==
    IF Len(strs) = 0 THEN <<>>
    ELSE IF Len(strs) = 1 THEN strs[1]
    ELSE strs[1] \o sep \o Join(Tail(strs), sep)

----------------------------------------------------------------------------
(* PIIFilter: the five patterns.  Each XxxMatchEnd(t, s) is the index just *)
(* after the match the regular expression finds when started at t[s], or 0 *)
(* when it does not match there.                                           *)

EmailPlaceholder ==
    <<"[","R","E","D","A","C","T","E","D","_","E","M","A","I","L","]">>

PhonePlaceholder ==
    <<"[","R","E","D","A","C","T","E","D","_","P","H","O","N","E","]">>

EmpIdPlaceholder ==
    <<"[","R","E","D","A","C","T","E","D","_","E","M","P","_","I","D","]">>

CreditCardPlaceholder ==
    <<"[","R","E","D","A","C","T","E","D","_","C","R","E","D","I","T","_","C","A","R","D","]">>

ProjectCodePlaceholder ==
    <<"[","R","E","D","A","C","T","E","D","_","P","R","O","J","E","C","T","_","C","O","D","E","]">>

EmailLabel ==
    <<"E","m","a","i","l"," ","P","I","I"," ","d","e","t","e","c","t","e","d">>

PhoneLabel ==
    <<"P","h","o","n","e"," ","P","I","I"," ","d","e","t","e","c","t","e","d">>

EmpIdLabel ==
    <<"E","m","p","l","o","y","e","e"," ","I","D"," ","d","e","t","e","c","t","e","d">>

CreditCardLabel ==
    <<"C","r","e","d","i","t"," ","C","a","r","d"," ","d","e","t","e","c","t","e","d">>

ProjectCodeLabel ==
    <<"P","r","o","j","e","c","t"," ","C","o","d","e","w","o","r","d"," ","d","e","t","e","c","t","e","d">>

EmpPrefix ==
    <<"E","M","P","-">>

ProjectPrefix ==
    <<"P","R","O","J","E","C","T","-">>

\* {2,} of the e-mail pattern's top-level domain
MinTldLen == 2

\* {5,} of the employee id pattern
MinEmpDigits == 5

\* /[a-zA-Z0-9._%+-]+@[a-zA-Z0-9.-]+\.[a-zA-Z]{2,}/
\* The local part is greedy and "@" is outside its class, so "@" must follow
\* the whole run; the domain is greedy and backtracks to the last "." of its
\* run that is followed by at least two letters.
emailRegex(t, s) ==
    LET n  == RunLen(t, s, EmailLocalClass)
        d  == s + n + 1
        m  == RunLen(t, d, EmailDomainClass)
        J  == {j \in 1..(m - 1) :
                 /\ t[d + j] = "."
                 /\ RunLen(t, d + j + 1, Alpha) >= MinTldLen}
        jm == CHOOSE j \in J : \A k \in J : k <= j
    IN  IF n >= 1 /\ s + n <= Len(t) /\ t[s + n] = "@" /\ J # {}
        THEN d + jm + 1 + RunLen(t, d + jm + 1, Alpha)
        ELSE 0

\* /\b\d{3}[-.]?\d{3}[-.]?\d{4}\b/
phoneRegex(t, s) ==
    LET a == SkipOpt(t, s + 3, PhoneSeps)
        b == SkipOpt(t, a + 3, PhoneSeps)
        e == b + 4
    IN  IF /\ AtWordBoundary(t, s)
           /\ DigitsAt(t, s, 3)
           /\ DigitsAt(t, a, 3)
           /\ DigitsAt(t, b, 4)
           /\ AtWordBoundary(t, e)
        THEN e ELSE 0

\* /\bEMP-\d{5,}\b/
employeeIdRegex(t, s) ==
    LET d == s + Len(EmpPrefix)
        n == RunLen(t, d, Digit)
    IN  IF /\ AtWordBoundary(t, s)
           /\ LiteralAt(t, s, EmpPrefix)
           /\ n >= MinEmpDigits
           /\ AtWordBoundary(t, d + n)
        THEN d + n ELSE 0

\* /\b(?:\d{4}[- ]?){3}\d{4}\b/
creditCardRegex(t, s) ==
    LET a == SkipOpt(t, s + 4, CardSeps)
        b == SkipOpt(t, a + 4, CardSeps)
        c == SkipOpt(t, b + 4, CardSeps)
        e == c + 4
    IN  IF /\ AtWordBoundary(t, s)
           /\ DigitsAt(t, s, 4)
           /\ DigitsAt(t, a, 4)
           /\ DigitsAt(t, b, 4)
           /\ DigitsAt(t, c, 4)
           /\ AtWordBoundary(t, e)
        THEN e ELSE 0

\* /\bPROJECT-[A-Z0-9]+\b/
projectCodewordRegex(t, s) ==
    LET d == s + Len(ProjectPrefix)
        n == RunLen(t, d, ProjectSuffixClass)
    IN  IF /\ AtWordBoundary(t, s)
           /\ LiteralAt(t, s, ProjectPrefix)
           /\ n >= 1
           /\ AtWordBoundary(t, d + n)
        THEN d + n ELSE 0

\* the order in which redact evaluates the patterns
PatternKinds == <<"email", "phone", "employeeId", "creditCard", "projectCodeword">>

MatchEnd(kind, t, s) ==
    CASE kind = "email"           -> emailRegex(t, s)
      [] kind = "phone"           -> phoneRegex(t, s)
      [] kind = "employeeId"      -> employeeIdRegex(t, s)
      [] kind = "creditCard"      -> creditCardRegex(t, s)
      [] kind = "projectCodeword" -> projectCodewordRegex(t, s)

Placeholder(kind) ==
    CASE kind = "email"           -> EmailPlaceholder
      [] kind = "phone"           -> PhonePlaceholder
      [] kind = "employeeId"      -> EmpIdPlaceholder
      [] kind = "creditCard"      -> CreditCardPlaceholder
      [] kind = "projectCodeword" -> ProjectCodePlaceholder

Label(kind) ==
    CASE kind = "email"           -> EmailLabel
      [] kind = "phone"           -> PhoneLabel
      [] kind = "employeeId"      -> EmpIdLabel
      [] kind = "creditCard"      -> CreditCardLabel
      [] kind = "projectCodeword" -> ProjectCodeLabel

\* String.prototype.match with a /g pattern: non-null iff some match exists
Matches(t, kind) == \E s \in 1..Len(t) : MatchEnd(kind, t, s) > 0

\* the starts at or after t[i] where the pattern matches
MatchStarts(t, i, kind) == {s \in i..Len(t) : MatchEnd(kind, t, s) > 0}

\* a replace that leaves the text as it is
KeepText(t, kind) == t

RECURSIVE ReplaceFrom(_, _, _)
\* String.prototype.replace with a /g pattern: the leftmost match at or after
\* t[i] is replaced by the placeholder and the scan resumes just after it,
\* always over the original string
ReplaceFrom(t, i, kind) ==
    LET S == MatchStarts(t, i, kind)
        s == CHOOSE x \in S : \A y \in S : x <= y
    IN  IF S = {} THEN SubSeq(t, i, Len(t))
        ELSE SubSeq(t, i, s - 1) \o Placeholder(kind)
             \o ReplaceFrom(t, MatchEnd(kind, t, s), kind)

ReplaceAll(t, kind) == ReplaceFrom(t, 1, kind)

----------------------------------------------------------------------------
(* Part: a content fragment.  hasText says whether the text property is    *)
(* present; inlineData is 0 when the fragment carries no other payload.    *)

TextPart(t) == [hasText |-> TRUE, text |-> t, inlineData |-> 0]

DataPart(d) == [hasText |-> FALSE, text |-> <<>>, inlineData |-> d]

\* the JavaScript truthiness of part.text
TextTruthy(p) == p.hasText /\ p.text # <<>>

\* part.text || ''
TextOrEmpty(p) == IF TextTruthy(p) THEN p.text ELSE <<>>

----------------------------------------------------------------------------
(* PIIFilter.redact *)

RECURSIVE ApplyPatterns(_, _)
\* the five if-blocks of one text fragment, from pattern k on: the text
\* after the replacements and the kinds that matched, in evaluation order
ApplyPatterns(t, k) ==
    IF k > Len(PatternKinds) THEN [text |-> t, fired |-> <<>>]
    ELSE LET kind == PatternKinds[k]
             hit  == Matches(t, kind)
             rest == ApplyPatterns(IF hit THEN ReplaceAll(t, kind) ELSE t, k + 1)
         IN  [text  |-> rest.text,
              fired |-> IF hit THEN <<kind>> \o rest.fired ELSE rest.fired]

\* a push of every label, seen before or not
PushAll(justifications, kinds) ==
    justifications \o [j \in 1..Len(kinds) |-> Label(kinds[j])]

RECURSIVE PushNew(_, _)
\* if (!justifications.includes(label)) justifications.push(label)
PushNew(justifications, kinds) ==
    IF kinds = <<>> THEN justifications
    ELSE LET label == Label(Head(kinds))
         IN  PushNew(IF label \in Range(justifications)
                     THEN justifications
                     ELSE Append(justifications, label),
                     Tail(kinds))

RECURSIVE RedactFrom(_, _, _)
\* parts.map over the fragments from index i on, with the accumulators
\* wasRedacted and justifications shared by all fragments
RedactFrom(parts, i, acc) ==
    IF i > Len(parts) THEN acc
    ELSE LET part == parts[i]
             r    == ApplyPatterns(part.text, 1)
         IN  IF TextTruthy(part)
             THEN RedactFrom(parts, i + 1,
                    [redactedParts  |-> Append(acc.redactedParts,
                                               [part EXCEPT !.text = r.text]),
                     wasRedacted    |-> acc.wasRedacted \/ r.fired # <<>>,
                     justifications |-> PushNew(acc.justifications, r.fired)])
             ELSE RedactFrom(parts, i + 1,
                    [acc EXCEPT !.redactedParts = Append(@, part)])

\* a filter that changes nothing
NoRedact(parts) ==
    [redactedParts |-> parts, wasRedacted |-> FALSE, justifications |-> <<>>]

\* a filter that changes nothing and reports a redaction
RedactFlagged(parts) ==
    [redactedParts |-> parts, wasRedacted |-> TRUE, justifications |-> <<>>]

\* a filter that returns the text fragments only
RedactTextOnly(parts) ==
    RedactFrom(SelectSeq(parts, LAMBDA p : p.hasText), 1,
               [redactedParts |-> <<>>, wasRedacted |-> FALSE,
                justifications |-> <<>>])

redact(parts) ==
    RedactFrom(parts, 1,
               [redactedParts |-> <<>>, wasRedacted |-> FALSE,
                justifications |-> <<>>])

----------------------------------------------------------------------------
(* RiskClassifier.classify *)

KwConfidential ==
    <<"c","o","n","f","i","d","e","n","t","i","a","l">>

KwSecret ==
    <<"s","e","c","r","e","t">>

KwProprietary ==
    <<"p","r","o","p","r","i","e","t","a","r","y">>

KwHrDecision ==
    <<"h","r"," ","d","e","c","i","s","i","o","n">>

KwFireEmployee ==
    <<"f","i","r","e"," ","e","m","p","l","o","y","e","e">>

KwHiring ==
    <<"h","i","r","i","n","g">>

KwFinancialAdvice ==
    <<"f","i","n","a","n","c","i","a","l"," ","a","d","v","i","c","e">>

KwInvest ==
    <<"i","n","v","e","s","t">>

KwStock ==
    <<"s","t","o","c","k">>

KwMedical ==
    <<"m","e","d","i","c","a","l">>

KwDiagnosis ==
    <<"d","i","a","g","n","o","s","i","s">>

CatProprietary ==
    <<"P","r","o","p","r","i","e","t","a","r","y"," ","I","n","f","o","r","m","a","t","i","o","n">>

CatHR ==
    <<"H","R"," ","D","e","c","i","s","i","o","n">>

CatFinancial ==
    <<"F","i","n","a","n","c","i","a","l"," ","A","d","v","i","c","e">>

CatMedical ==
    <<"M","e","d","i","c","a","l"," ","A","d","v","i","c","e">>

CatGeneral ==
    <<"G","e","n","e","r","a","l">>

\* a buffer made of the first fragment alone
FirstText(parts) ==
    IF parts = <<>> THEN <<>> ELSE TextOrEmpty(Head(parts))

RECURSIVE CombinedText(_)
\* for (const part of parts) if (part.text) combinedText += part.text + ' '
CombinedText(parts) ==
    IF parts = <<>> THEN <<>>
    ELSE (IF TextTruthy(Head(parts)) THEN Head(parts).text \o <<" ">> ELSE <<>>)
         \o CombinedText(Tail(parts))

classify(parts) ==
    LET combinedText == ToLowerCase(CombinedText(parts))
    IN  IF \/ Includes(combinedText, KwConfidential)
           \/ Includes(combinedText, KwSecret)
           \/ Includes(combinedText, KwProprietary)
        THEN [level |-> "HIGH", category |-> CatProprietary]
        ELSE IF \/ Includes(combinedText, KwHrDecision)
                \/ Includes(combinedText, KwFireEmployee)
                \/ Includes(combinedText, KwHiring)
        THEN [level |-> "HIGH", category |-> CatHR]
        ELSE IF \/ Includes(combinedText, KwFinancialAdvice)
                \/ Includes(combinedText, KwInvest)
                \/ Includes(combinedText, KwStock)
        THEN [level |-> "HIGH", category |-> CatFinancial]
        ELSE IF \/ Includes(combinedText, KwMedical)
                \/ Includes(combinedText, KwDiagnosis)
        THEN [level |-> "HIGH", category |-> CatMedical]
        ELSE [level |-> "LOW", category |-> CatGeneral]

----------------------------------------------------------------------------
(* GenerateContentResponse and OutputGuardrail.validate.  A response is    *)
(* [hasCandidates, candidates]; a candidate is [hasContent, hasParts,      *)
(* parts]: content may be absent, and content.parts may be absent.         *)

ReasonPII ==
    <<"P","I","I"," ","d","e","t","e","c","t","e","d"," ","i","n"," ","o","u","t","p","u","t">>

ReasonHighRisk ==
    <<"H","i","g","h"," ","r","i","s","k"," ","u","s","e"," ","c","a","s","e"," ","r","e","q","u","i","r","e","s"," ","h","u","m","a","n"," ","r","e","v","i","e","w">>

NoCandidates == [hasCandidates |-> FALSE, candidates |-> <<>>]

Candidate(hasContent, hasParts, parts) ==
    [hasContent |-> hasContent, hasParts |-> hasParts, parts |-> parts]

ResponseOf(parts) ==
    [hasCandidates |-> TRUE, candidates |-> <<Candidate(TRUE, TRUE, parts)>>]

\* response.candidates?.[0]?.content is defined
HasContent(response) ==
    /\ response.hasCandidates
    /\ Len(response.candidates) >= 1
    /\ response.candidates[1].hasContent

\* content.parts.map(p => p.text || '').join(' ')
OutputText(response) ==
    LET c == response.candidates[1]
    IN  IF c.hasParts
        THEN Join([i \in 1..Len(c.parts) |-> TextOrEmpty(c.parts[i])], <<" ">>)
        ELSE <<>>

\* a pattern that matches nowhere
NoMatch(t, s) == 0

\* the output scanner's email pattern: the end of its match at s, or 0
piiRegex(t, s) == emailRegex(t, s)

\* text.match(piiRegex) is not null
MatchesPii(t) == \E s \in 1..Len(t) : piiRegex(t, s) > 0

\* a validator that looks at the risk level before the text
ValidateRiskFirst(response, riskLevel) ==
    IF ~HasContent(response)
    THEN [decision |-> "APPROVED", hasReason |-> FALSE, reason |-> <<>>]
    ELSE IF riskLevel = "HIGH"
    THEN [decision |-> "FLAGGED_FOR_REVIEW", hasReason |-> TRUE,
          reason |-> ReasonHighRisk]
    ELSE IF MatchesPii(OutputText(response))
    THEN [decision |-> "BLOCKED", hasReason |-> TRUE, reason |-> ReasonPII]
    ELSE [decision |-> "APPROVED", hasReason |-> FALSE, reason |-> <<>>]

validate(response, riskLevel) ==
    IF ~HasContent(response)
    THEN [decision |-> "APPROVED", hasReason |-> FALSE, reason |-> <<>>]
    ELSE IF MatchesPii(OutputText(response))
    THEN [decision |-> "BLOCKED", hasReason |-> TRUE, reason |-> ReasonPII]
    ELSE IF riskLevel = "HIGH"
    THEN [decision |-> "FLAGGED_FOR_REVIEW", hasReason |-> TRUE,
          reason |-> ReasonHighRisk]
    ELSE [decision |-> "APPROVED", hasReason |-> FALSE, reason |-> <<>>]

----------------------------------------------------------------------------
(* AuditLogger.log: the entry serialized from a context at the moment of   *)
(* the call.  guardrailDecision "NONE" stands for an undefined field.      *)

OutputPresent == "Generated Content Present"

NoOutput == "No Output"

\* the output written verbatim
RawOutput(context) == ToString(context.output)

\* context.output ? 'Generated Content Present' : 'No Output'
OutputMarker(context) ==
    IF context.hasOutput THEN OutputPresent ELSE NoOutput

\* new Date(ms).toISOString(): the instant as ISO-8601 text
toISOString(ms) == <<"ISO-8601", ms>>

LogEntry(context) ==
    [timestamp         |-> toISOString(context.timestamp),
     userId            |-> context.userId,
     requestId         |-> context.requestId,
     riskLevel         |-> context.riskLevel,
     riskCategory      |-> context.riskCategory,
     modelVersion      |-> context.modelVersion,
     modelParams       |-> context.modelParams,
     guardrailDecision |-> context.guardrailDecision,
     justification     |-> context.justification,
     inputRedacted     |-> context.redactedInput,
     output            |-> OutputMarker(context)]

\* a write that is lost
DropLine(file, line) == file

\* a write that stops part of the way through the line
TornAppend(file, line) ==
    Append(file, [f \in {"timestamp", "userId", "requestId"} |-> line[f]])

\* a write that replaces the file by the line (fs.writeFileSync)
writeFileSync(file, line) == <<line>>

\* fs.appendFileSync(this.logFilePath, JSON.stringify(logEntry) + '\n')
appendFileSync(file, line) == Append(file, line)

----------------------------------------------------------------------------
(* GovernanceEngine *)

PiiRedactedPrefix ==
    <<"P","I","I"," ","R","e","d","a","c","t","e","d",":"," ">>

CommaSep ==
    <<","," ">>

SemiSep ==
    <<";"," ">>

ErrRequestBlocked ==
    <<"R","e","q","u","e","s","t"," ","b","l","o","c","k","e","d"," ","d","u","e"," ","t","o"," ","H","i","g","h"," ","R","i","s","k"," ","p","o","l","i","c","y",".">>

ErrOutputBlockedPrefix ==
    <<"O","u","t","p","u","t"," ","b","l","o","c","k","e","d",":"," ">>

WarningHead ==
    <<"\n","\n","[","G","O","V","E","R","N","A","N","C","E"," ","W","A","R","N","I","N","G",":"," ","T","h","i","s"," ","o","u","t","p","u","t"," ","w","a","s"," ","f","l","a","g","g","e","d"," ","f","o","r"," ","h","u","m","a","n"," ","r","e","v","i","e","w"," ","d","u","e"," ","t","o"," ","H","i","g","h"," ","R","i","s","k"," ","c","a","t","e","g","o","r","y",":"," ">>

WarningTail ==
    <<"]","\n","\n">>

\* types.ts DEFAULT_POLICIES, the configuration point of the three flags
DEFAULT_POLICIES ==
    [piiRedaction |-> TRUE, blockHighRisk |-> FALSE, requireHumanReview |-> TRUE]

\* process.env.USER || 'unknown_user'
UserId == "unknown_user"

\* a gate that is never taken
GateOpen(x, level) == FALSE

\* a gate that approval does not open
GateShut(level, approvalGranted) == level = "HIGH"

\* this.policies.blockHighRisk && level === RiskLevel.HIGH
BlockGate(pol, level) == pol.blockHighRisk /\ level = "HIGH"

\* level === RiskLevel.HIGH && !options.approvalGranted
ApprovalGate(level, approvalGranted) == level = "HIGH" /\ ~approvalGranted

\* a redaction step that keeps the message as given
OriginalInput(pol, input, result) == input

\* redactedInput after the redaction step: result is piiFilter.redact(input)
RedactedInput(pol, input, result) ==
    IF pol.piiRedaction THEN result.redactedParts ELSE input

\* justification after the redaction step
RequestJustification(pol, result) ==
    IF pol.piiRedaction /\ result.wasRedacted
    THEN PiiRedactedPrefix \o Join(result.justifications, CommaSep)
    ELSE <<>>

\* a context that takes the transaction id of the first call
ReusedId(input, redactedInput, justification, risk, modelVersion, modelParams, requestId, now) ==
    [userId            |-> UserId,
     requestId         |-> 1,
     timestamp         |-> now,
     originalInput     |-> input,
     redactedInput     |-> redactedInput,
     riskLevel         |-> risk.level,
     riskCategory      |-> risk.category,
     modelVersion      |-> modelVersion,
     modelParams       |-> modelParams,
     justification     |-> justification,
     hasOutput         |-> FALSE,
     output            |-> NoCandidates,
     guardrailDecision |-> "NONE"]

\* the GovernanceContext literal; hasOutput says whether output is set
NewContext(input, redactedInput, justification, risk, modelVersion, modelParams, requestId, now) ==
    [userId            |-> UserId,
     requestId         |-> requestId,
     timestamp         |-> now,
     originalInput     |-> input,
     redactedInput     |-> redactedInput,
     riskLevel         |-> risk.level,
     riskCategory      |-> risk.category,
     modelVersion      |-> modelVersion,
     modelParams       |-> modelParams,
     justification     |-> justification,
     hasOutput         |-> FALSE,
     output            |-> NoCandidates,
     guardrailDecision |-> "NONE"]

\* gates that admit the first transaction and no other
GateByTurn(pol, context, approvalGranted, primaryOk) ==
    [context          |-> context,
     logged           |-> FALSE,
     threw            |-> FALSE,
     proceed          |-> context.requestId = 1,
     requiresApproval |-> FALSE,
     hasError         |-> FALSE,
     error            |-> <<>>]

\* gates that ask for approval and admit the request in the same result
GateAsksAndAdmits(pol, context, approvalGranted, primaryOk) ==
    [context          |-> context,
     logged           |-> FALSE,
     threw            |-> FALSE,
     proceed          |-> TRUE,
     requiresApproval |-> ApprovalGate(context.riskLevel, approvalGranted),
     hasError         |-> FALSE,
     error            |-> <<>>]

\* a block gate that logs the context before any decision is stored
GateLogsUndecided(pol, context, approvalGranted, primaryOk) ==
    IF BlockGate(pol, context.riskLevel)
    THEN [context          |-> context,
          logged           |-> primaryOk,
          threw            |-> ~primaryOk,
          proceed          |-> FALSE,
          requiresApproval |-> FALSE,
          hasError         |-> primaryOk,
          error            |-> IF primaryOk THEN ErrRequestBlocked ELSE <<>>]
    ELSE [context          |-> context,
          logged           |-> FALSE,
          threw            |-> FALSE,
          proceed          |-> ~ApprovalGate(context.riskLevel, approvalGranted),
          requiresApproval |-> ApprovalGate(context.riskLevel, approvalGranted),
          hasError         |-> FALSE,
          error            |-> <<>>]

\* gates that hold a HIGH-risk request for approval only under
\* requireHumanReview
GateUnderReviewFlag(pol, context, approvalGranted, primaryOk) ==
    IF BlockGate(pol, context.riskLevel)
    THEN [context          |-> [context EXCEPT !.guardrailDecision = "BLOCKED"],
          logged           |-> primaryOk,
          threw            |-> ~primaryOk,
          proceed          |-> FALSE,
          requiresApproval |-> FALSE,
          hasError         |-> primaryOk,
          error            |-> IF primaryOk THEN ErrRequestBlocked ELSE <<>>]
    ELSE [context          |-> context,
          logged           |-> FALSE,
          threw            |-> FALSE,
          proceed          |-> ~(pol.requireHumanReview
                                  /\ ApprovalGate(context.riskLevel, approvalGranted)),
          requiresApproval |-> pol.requireHumanReview
                                  /\ ApprovalGate(context.riskLevel, approvalGranted),
          hasError         |-> FALSE,
          error            |-> <<>>]

\* gates that an approval opens whatever the policy
GateApprovedPasses(pol, context, approvalGranted, primaryOk) ==
    IF approvalGranted
    THEN [context          |-> context,
          logged           |-> FALSE,
          threw            |-> FALSE,
          proceed          |-> TRUE,
          requiresApproval |-> FALSE,
          hasError         |-> FALSE,
          error            |-> <<>>]
    ELSE IF BlockGate(pol, context.riskLevel)
    THEN [context          |-> [context EXCEPT !.guardrailDecision = "BLOCKED"],
          logged           |-> primaryOk,
          threw            |-> ~primaryOk,
          proceed          |-> FALSE,
          requiresApproval |-> FALSE,
          hasError         |-> primaryOk,
          error            |-> IF primaryOk THEN ErrRequestBlocked ELSE <<>>]
    ELSE [context          |-> context,
          logged           |-> FALSE,
          threw            |-> FALSE,
          proceed          |-> ~ApprovalGate(context.riskLevel, approvalGranted),
          requiresApproval |-> ApprovalGate(context.riskLevel, approvalGranted),
          hasError         |-> FALSE,
          error            |-> <<>>]

\* the two gates on the finished context and what each returns.  logged says
\* whether auditLogger.log appended its line; threw says that log raised
\* (primaryOk: the append to the audit file succeeds), so that the call
\* returns nothing.
Gate(pol, context, approvalGranted, primaryOk) ==
    IF BlockGate(pol, context.riskLevel)
    THEN [context          |-> [context EXCEPT !.guardrailDecision = "BLOCKED"],
          logged           |-> primaryOk,
          threw            |-> ~primaryOk,
          proceed          |-> FALSE,
          requiresApproval |-> FALSE,
          hasError         |-> primaryOk,
          error            |-> IF primaryOk THEN ErrRequestBlocked ELSE <<>>]
    ELSE IF ApprovalGate(context.riskLevel, approvalGranted)
    THEN [context          |-> context,
          logged           |-> FALSE,
          threw            |-> FALSE,
          proceed          |-> FALSE,
          requiresApproval |-> TRUE,
          hasError         |-> FALSE,
          error            |-> <<>>]
    ELSE [context          |-> context,
          logged           |-> FALSE,
          threw            |-> FALSE,
          proceed          |-> TRUE,
          requiresApproval |-> FALSE,
          hasError         |-> FALSE,
          error            |-> <<>>]

\* redaction, then classification of the redacted input, then the context
Classified(pol, input, redactedInput, result, modelVersion, modelParams, requestId, now) ==
    NewContext(input, redactedInput, RequestJustification(pol, result),
               classify(redactedInput), modelVersion, modelParams, requestId, now)

Redacted(pol, input, result, modelVersion, modelParams, requestId, now) ==
    Classified(pol, input, RedactedInput(pol, input, result), result,
               modelVersion, modelParams, requestId, now)

\* the result of interceptRequest for (input, modelVersion, modelParams,
\* options.approvalGranted) under policy pol, with the transaction id and the
\* clock reading drawn by the call, and whether the audit file can be
\* appended to
interceptRequest(pol, input, modelVersion, modelParams, approvalGranted, requestId, now, primaryOk) ==
    Gate(pol,
         Redacted(pol, input, redact(input), modelVersion, modelParams, requestId, now),
         approvalGranted, primaryOk)

\* the warning header of a flagged response
Warning(context) == WarningHead \o context.riskCategory \o WarningTail

\* the in-place rewrite of a flagged response: threw is the TypeError of
\* reading parts[0].text on an empty parts array
AddWarning(context, response) ==
    LET c     == response.candidates[1]
        parts == c.parts
    IN  IF ~(HasContent(response) /\ c.hasParts)
        THEN [threw |-> FALSE, response |-> response]
        ELSE IF Len(parts) = 0
        THEN [threw |-> TRUE, response |-> response]
        ELSE IF TextTruthy(parts[1])
        THEN [threw    |-> FALSE,
              response |-> [response EXCEPT
                              !.candidates[1].parts[1].text =
                                  Warning(context) \o @]]
        ELSE [threw    |-> FALSE,
              response |-> [response EXCEPT
                              !.candidates[1].parts =
                                  <<TextPart(Warning(context))>> \o @]]

\* the context with the response attached and nothing else recorded
AttachOutput(context, response, v) ==
    [context EXCEPT !.hasOutput = TRUE, !.output = response]

\* a context whose justification is replaced by the validator's reason
OverwriteJustification(context, response, v) ==
    [context EXCEPT
       !.hasOutput = TRUE,
       !.output = response,
       !.guardrailDecision = v.decision,
       !.justification = v.reason]

\* the context as interceptResponse has updated it when it calls log: the
\* response attached, the validator's decision stored, its reason appended
RecordDecision(context, response, v) ==
    [context EXCEPT
       !.hasOutput = TRUE,
       !.output = response,
       !.guardrailDecision = v.decision,
       !.justification =
           IF v.hasReason /\ v.reason # <<>>
           THEN (IF @ # <<>> THEN @ \o SemiSep ELSE <<>>) \o v.reason
           ELSE @]

\* what interceptResponse leaves and returns once the context is recorded
\* (logged) and the warning step has run (w): the context and the response
\* after the call's in-place updates, the entry handed to the audit file,
\* and what the caller gets (logged: log appended its line; threw: the
\* call raised after log).  The
\* returned object has the properties response, proceed and error only:
\* decision "NONE" stands for the property it does not have.
Outcome(logged, response, v, w) ==
    IF v.decision = "BLOCKED"
    THEN [context  |-> logged,
          entry    |-> LogEntry(logged),
          logged   |-> TRUE,
          threw    |-> FALSE,
          response |-> response,
          proceed  |-> FALSE,
          hasError |-> TRUE,
          error    |-> ErrOutputBlockedPrefix \o v.reason,
          decision |-> "NONE"]
    ELSE IF v.decision = "FLAGGED_FOR_REVIEW"
    THEN [context  |-> [logged EXCEPT !.output = w.response],
          entry    |-> LogEntry(logged),
          logged   |-> TRUE,
          threw    |-> w.threw,
          response |-> w.response,
          proceed  |-> ~w.threw,
          hasError |-> FALSE,
          error    |-> <<>>,
          decision |-> "NONE"]
    ELSE [context  |-> logged,
          entry    |-> LogEntry(logged),
          logged   |-> TRUE,
          threw    |-> FALSE,
          response |-> response,
          proceed  |-> TRUE,
          hasError |-> FALSE,
          error    |-> <<>>,
          decision |-> "NONE"]

\* log, then the warning step
Logged(logged, response, v) ==
    Outcome(logged, response, v, AddWarning(logged, response))

\* a logger that takes the failure of the append and returns
LogSwallowed(logged, response) ==
    [context  |-> logged,
     entry    |-> LogEntry(logged),
     logged   |-> FALSE,
     threw    |-> FALSE,
     response |-> response,
     proceed  |-> TRUE,
     hasError |-> FALSE,
     error    |-> <<>>,
     decision |-> "NONE"]

\* log raises: the context keeps the updates made before the call, no line
\* is appended, nothing is returned
LogRaised(logged, response) ==
    [context  |-> logged,
     entry    |-> LogEntry(logged),
     logged   |-> FALSE,
     threw    |-> TRUE,
     response |-> response,
     proceed  |-> FALSE,
     hasError |-> FALSE,
     error    |-> <<>>,
     decision |-> "NONE"]

\* the context updates, then log
Validated(context, response, v, primaryOk) ==
    IF primaryOk
    THEN Logged(RecordDecision(context, response, v), response, v)
    ELSE LogRaised(RecordDecision(context, response, v), response)

\* the result of interceptResponse(context, response); primaryOk: the append
\* to the audit file succeeds
interceptResponse(context, response, primaryOk) ==
    Validated(context, response, validate(response, context.riskLevel), primaryOk)
----------------------------------------------------------------------------
(* Bounds and the inputs the callers draw from *)

\* interceptRequest calls (transactions) in one run
MaxTx == 2

\* lines of the audit file in one run
MaxLog == 2

TxtHello ==
    <<"h","e","l","l","o"," ","w","o","r","l","d">>

TxtFire ==
    <<"I"," ","n","e","e","d"," ","t","o"," ","f","i","r","e"," ","e","m","p","l","o","y","e","e">>

TxtFireAn ==
    <<"I"," ","n","e","e","d"," ","t","o"," ","f","i","r","e"," ","a","n"," ","e","m","p","l","o","y","e","e">>

TxtEmailFinancial ==
    <<"M","y"," ","e","m","a","i","l"," ","i","s"," ","a","@","b",".","c","o","m",","," ","f","i","n","a","n","c","i","a","l"," ","a","d","v","i","c","e"," ","p","l","e","a","s","e">>

TxtPhoneEmp ==
    <<"c","a","l","l"," ","5","5","5","-","1","2","3","-","4","5","6","7"," ","r","e"," ","E","M","P","-","1","2","3","4","5">>

TxtCardProject ==
    <<"c","a","r","d"," ","1","2","3","4"," ","5","6","7","8"," ","9","0","1","2"," ","3","4","5","6"," ","f","o","r"," ","P","R","O","J","E","C","T","-","X","9"," ","s","e","c","r","e","t">>

TxtPhone ==
    <<"c","a","l","l"," ","5","5","5","1","2","3","4","5","6","7">>

TxtEmail ==
    <<"x","@","y",".","i","o">>

TxtKeywordInEmail ==
    <<"a","s","k"," ","i","n","v","e","s","t","@","c","o","r","p",".","c","o","m">>

TxtCode ==
    <<"H","e","r","e"," ","i","s"," ","s","o","m","e"," ","c","o","d","e",".">>

TxtLeak ==
    <<"w","r","i","t","e"," ","t","o"," ","b","o","b","@","c","o","r","p",".","i","o">>

TxtOk ==
    <<"o","k">>

\* messages handed to interceptRequest (Part[])
Inputs ==
    { <<TextPart(TxtHello)>>,
      <<TextPart(TxtFire)>>,
      <<TextPart(TxtEmailFinancial)>>,
      <<DataPart(1), TextPart(TxtPhoneEmp), TextPart(TxtCardProject)>>,
      <<TextPart(TxtPhone), TextPart(TxtEmail)>>,
      <<TextPart(TxtKeywordInEmail)>>,
      <<TextPart(<<>>)>> }

\* responses of the model, every shape of candidates / content / parts
Responses ==
    { NoCandidates,
      [hasCandidates |-> TRUE, candidates |-> <<Candidate(FALSE, FALSE, <<>>)>>],
      [hasCandidates |-> TRUE, candidates |-> <<Candidate(TRUE, FALSE, <<>>)>>],
      ResponseOf(<<>>),
      ResponseOf(<<TextPart(TxtCode)>>),
      ResponseOf(<<TextPart(TxtLeak)>>),
      ResponseOf(<<DataPart(1), TextPart(TxtOk)>>),
      ResponseOf(<<TextPart(<<>>), TextPart(TxtOk)>>) }

\* the prompts and replies of the runs of the host client: the host hands
\* both through unread, so one message and one response of each kind the
\* engine tells apart (LOW / HIGH, redacted or not; empty fragment list,
\* clean text, leaking text)
HostInputs ==
    { <<TextPart(TxtHello)>>,
      <<TextPart(TxtFire)>>,
      <<TextPart(TxtEmailFinancial)>>,
      <<TextPart(TxtKeywordInEmail)>> }

HostResponses ==
    { ResponseOf(<<>>),
      ResponseOf(<<TextPart(TxtCode)>>),
      ResponseOf(<<TextPart(TxtLeak)>>) }

\* the prompts and replies of the runs with a failing audit file or endpoint:
\* a LOW and a HIGH message, a clean and a leaking response
SinkInputs ==
    { <<TextPart(TxtHello)>>,
      <<TextPart(TxtFire)>> }

SinkResponses ==
    { ResponseOf(<<TextPart(TxtCode)>>),
      ResponseOf(<<TextPart(TxtLeak)>>) }

\* items (tokens, fragment breaks, non-text fragments) in one message drawn
\* for a call of redact, classify or validate alone
MaxItems == 3

\* the text a token item stands for
TokenText(item) ==
    CASE item = "email" -> <<"a","@","b",".","c","o">>
      [] item = "phone" -> <<"5","5","5","-","1","2","3","-","4","5","6","7">>
      [] item = "empId" -> <<"E","M","P","-","1","2","3","4","5">>
      [] item = "card" -> <<"1","2","3","4"," ","5","6","7","8"," ","9","0","1","2"," ","3","4","5","6">>
      [] item = "project" -> <<"P","R","O","J","E","C","T","-","X","9">>
      [] item = "space" -> <<" ">>
      [] item = "fire" -> <<"F","i","r","e">>
      [] item = "employee" -> <<"e","m","p","l","o","y","e","e">>
      [] item = "an" -> <<"a","n">>
      [] item = "secret" -> <<"s","e","c","r","e","t">>
      [] item = "invest" -> <<"i","n","v","e","s","t">>
      [] item = "diagnosis" -> <<"D","I","A","G","N","O","S","I","S">>

RECURSIVE PartsOf(_, _)
\* the Part[] an item sequence spells: "break" opens a new text fragment,
\* "data" adds a non-text fragment, a token extends the text fragment at the
\* end or opens one
PartsOf(items, parts) ==
    IF items = <<>> THEN parts
    ELSE LET it == Head(items)
             n  == Len(parts)
         IN  PartsOf(Tail(items),
               IF it = "break" THEN Append(parts, TextPart(<<>>))
               ELSE IF it = "data" THEN Append(parts, DataPart(1))
               ELSE IF n > 0 /\ parts[n].hasText
               THEN [parts EXCEPT ![n].text = @ \o TokenText(it)]
               ELSE Append(parts, TextPart(TokenText(it))))

\* the messages of at most MaxItems items over an item alphabet
MessagesOver(alphabet) ==
    UNION { { PartsOf(s, <<>>) : s \in [1..n -> alphabet] } : n \in 0..MaxItems }

\* messages handed to redact: every pattern kind, adjacent and apart, in one
\* fragment and across fragments
RedactInputs ==
    MessagesOver({"email", "phone", "empId", "card", "project", "space", "break", "data"})

\* messages handed to classify: keywords of each rule in either case, whole,
\* split by a word and split over fragments, and three whole sentences
ClassifyInputs ==
    MessagesOver({"fire", "employee", "an", "space", "secret", "invest", "diagnosis", "break", "data"})
    \cup { <<TextPart(TxtFire)>>, <<TextPart(TxtFireAn)>>, <<TextPart(TxtHello)>> }

\* responses handed to validate: without candidates, content or parts, and
\* with parts that do and do not carry an email address
ValidateResponses ==
    { NoCandidates,
      [hasCandidates |-> TRUE, candidates |-> <<>>],
      [hasCandidates |-> TRUE, candidates |-> <<Candidate(FALSE, FALSE, <<>>)>>],
      [hasCandidates |-> TRUE, candidates |-> <<Candidate(TRUE, FALSE, <<>>)>>] }
    \cup { ResponseOf(m) : m \in MessagesOver({"email", "fire", "space", "break", "data"}) }

\* RiskLevel
RiskLevels == {"LOW", "MEDIUM", "HIGH", "CRITICAL"}

\* the settings of DEFAULT_POLICIES a build can carry
Policies ==
    [piiRedaction : BOOLEAN, blockHighRisk : BOOLEAN, requireHumanReview : BOOLEAN]

----------------------------------------------------------------------------
(* State *)

VARIABLES
    policies,   \* GovernanceEngine.policies
    message,    \* the prompt the user submits in this run
    reply,      \* the response the model gives to it
    contexts,   \* the GovernanceContext objects, indexed by requestId
    requests,   \* per context: the interceptRequest call that made it
    tasks,      \* per context: the caller that holds it and where it stands
    auditLog,   \* the lines of audit_trail.jsonl
    lastResp,   \* the latest interceptResponse call and what it returned
    diskOk,     \* whether an append to the audit file succeeds now
    endpoint,   \* whether GOVERNANCE_LOG_ENDPOINT is set
    exports,    \* the POSTs to the endpoint started so far
    result,     \* what a call of redact, classify or validate alone returned
    confirm     \* the confirmHighRiskAction call of this run and its session

vars ==
    <<policies, message, reply, contexts, requests, tasks, auditLog, lastResp,
      diskOk, endpoint, exports, result, confirm>>

\* the state of the engine and its callers, which a call of one component
\* alone leaves as it is
engine ==
    <<policies, contexts, requests, tasks, auditLog, lastResp, diskOk, endpoint, exports>>

\* no component has been called alone
NoResult == [op |-> "none"]

\* before any interceptResponse call
NoResp ==
    [valid |-> FALSE, requestId |-> 0, logBefore |-> 0, logged |-> FALSE,
     threw |-> FALSE, proceed |-> FALSE, hasError |-> FALSE, error |-> <<>>,
     decision |-> "NONE"]

Init ==
    /\ policies \in Policies
    /\ message \in Inputs
    /\ reply \in Responses
    /\ contexts = <<>>
    /\ requests = <<>>
    /\ tasks = <<>>
    /\ auditLog = <<>>
    /\ lastResp = NoResp
    /\ diskOk = TRUE
    /\ endpoint = FALSE
    /\ exports = <<>>
    /\ result = NoResult
    /\ confirm = [pc |-> "none"]

InitHost ==
    /\ Init
    /\ message \in HostInputs
    /\ reply \in HostResponses

\* runs in which the audit file may fail and GOVERNANCE_LOG_ENDPOINT may be set
InitSink ==
    /\ policies \in Policies
    /\ message \in SinkInputs
    /\ reply \in SinkResponses
    /\ contexts = <<>>
    /\ requests = <<>>
    /\ tasks = <<>>
    /\ auditLog = <<>>
    /\ lastResp = NoResp
    /\ diskOk \in BOOLEAN
    /\ endpoint \in BOOLEAN
    /\ exports = <<>>
    /\ result = NoResult
    /\ confirm = [pc |-> "none"]

\* an idle engine under the default policy
Idle ==
    /\ policies = DEFAULT_POLICIES
    /\ contexts = <<>>
    /\ requests = <<>>
    /\ tasks = <<>>
    /\ auditLog = <<>>
    /\ lastResp = NoResp
    /\ diskOk = TRUE
    /\ endpoint = FALSE
    /\ exports = <<>>
    /\ result = NoResult

\* a message for PIIFilter.redact
InitRedact ==
    /\ Idle
    /\ confirm = [pc |-> "none"]
    /\ message \in RedactInputs
    /\ reply = NoCandidates

\* a message for RiskClassifier.classify
InitClassify ==
    /\ Idle
    /\ confirm = [pc |-> "none"]
    /\ message \in ClassifyInputs
    /\ reply = NoCandidates

\* a response for OutputGuardrail.validate
InitValidate ==
    /\ Idle
    /\ confirm = [pc |-> "none"]
    /\ message = <<>>
    /\ reply \in ValidateResponses

\* the record kept of one interceptRequest call
RequestRecord(r, approvalGranted, logBefore) ==
    [approvalGranted  |-> approvalGranted,
     threw            |-> r.threw,
     proceed          |-> r.proceed,
     requiresApproval |-> r.requiresApproval,
     hasError         |-> r.hasError,
     error            |-> r.error,
     logBefore        |-> logBefore,
     logAfter         |-> IF r.logged THEN logBefore + 1 ELSE logBefore]

\* a confirmation event that carries the justification as it is
ValueAsIs(context) ==
    [riskLevel     |-> context.riskLevel,
     riskCategory  |-> context.riskCategory,
     justification |-> context.justification]

\* the value of the GovernanceConfirmationNeeded event: riskLevel and
\* riskCategory are never empty, an empty justification is replaced by
\* 'High Risk Detected'
ConfirmationValue(context) ==
    [riskLevel     |-> context.riskLevel,
     riskCategory  |-> context.riskCategory,
     justification |-> IF context.justification # <<>>
                       THEN context.justification
                       ELSE <<"H","i","g","h"," ","R","i","s","k"," ","D","e","t","e","c","t","e","d">>]

\* the caller of one interceptRequest call.  sent names the object handed to
\* the model ("redactedInput": context.redactedInput, "contents": the
\* caller's own message); yielded is the set of event types given to the
\* user so far; hasLast says whether the turn has recorded a response
\* (turn.getDebugResponses() is non-empty), which is then `reply`; value is
\* the value of the GovernanceConfirmationNeeded event, if one was yielded.
Task(caller, pc, approval) ==
    [caller   |-> caller,
     pc       |-> pc,
     approval |-> approval,
     sent     |-> "none",
     yielded  |-> {},
     hasLast  |-> FALSE,
     outcome  |-> "none",
     hasValue |-> FALSE,
     value    |-> [riskLevel |-> "", riskCategory |-> <<>>, justification |-> <<>>]]

\* a POST started whether or not an endpoint is configured
PostAlways(sent, configured, body) ==
    Append(sent, [body |-> body, status |-> "pending"])

\* the POST log starts once the line is appended, when an endpoint is
\* configured: fetch returns a promise that settles later
fetch(sent, configured, body) ==
    IF configured THEN Append(sent, [body |-> body, status |-> "pending"])
    ELSE sent

\* the state change of one interceptRequest call
DoInterceptRequest(r, approvalGranted) ==
    /\ contexts' = Append(contexts, r.context)
    /\ requests' = Append(requests, RequestRecord(r, approvalGranted, Len(auditLog)))
    /\ auditLog' = IF r.logged THEN appendFileSync(auditLog, LogEntry(r.context))
                               ELSE auditLog
    /\ exports' = IF r.logged THEN fetch(exports, endpoint, LogEntry(r.context))
                              ELSE exports

\* an interceptResponse call that stores its decision in every context the
\* engine has made, as if the decision were kept on the engine
ResponseTouchesAll(i, r) ==
    /\ contexts' = [j \in 1..Len(contexts) |->
                      IF j = i THEN r.context
                      ELSE [contexts[j] EXCEPT !.guardrailDecision =
                                                   r.context.guardrailDecision]]
    /\ auditLog' = IF r.logged THEN appendFileSync(auditLog, r.entry)
                               ELSE auditLog
    /\ exports' = IF r.logged THEN fetch(exports, endpoint, r.entry)
                              ELSE exports
    /\ lastResp' = [valid     |-> TRUE,
                    requestId |-> i,
                    logBefore |-> Len(auditLog),
                    logged    |-> r.logged,
                    threw     |-> r.threw,
                    proceed   |-> r.proceed,
                    hasError  |-> r.hasError,
                    error     |-> r.error,
                    decision  |-> r.decision]

\* the state change of one interceptResponse call on context i.  The response
\* the call returns is the object it was given, which context.output now
\* refers to: contexts[i].output holds it as the call left it.
DoInterceptResponse(i, r) ==
    /\ contexts' = [contexts EXCEPT ![i] = r.context]
    /\ auditLog' = IF r.logged THEN appendFileSync(auditLog, r.entry)
                               ELSE auditLog
    /\ exports' = IF r.logged THEN fetch(exports, endpoint, r.entry)
                              ELSE exports
    /\ lastResp' = [valid     |-> TRUE,
                    requestId |-> i,
                    logBefore |-> Len(auditLog),
                    logged    |-> r.logged,
                    threw     |-> r.threw,
                    proceed   |-> r.proceed,
                    hasError  |-> r.hasError,
                    error     |-> r.error,
                    decision  |-> r.decision]

----------------------------------------------------------------------------
(* Callers.  A test or embedding program calls the engine directly; the    *)
(* host GeminiClient calls it from sendMessageStream and generateContent.  *)

ModelVersion == "model-v1"

\* an interceptRequest call that switches the block gate off as it returns
RequestRelaxes(input, approvalGranted) ==
    /\ Len(contexts) < MaxTx
    /\ DoInterceptRequest(
           interceptRequest(policies, input, ModelVersion, "{}", approvalGranted,
                            Len(contexts) + 1, Len(contexts) + 1, diskOk),
           approvalGranted)
    /\ tasks' = Append(tasks, Task("direct", "direct", approvalGranted))
    /\ policies' = [policies EXCEPT !.blockHighRisk = FALSE]
    /\ UNCHANGED <<confirm, result, diskOk, endpoint, message, reply, lastResp>>

\* engine.interceptRequest(input, 'model-v1', {}, { approvalGranted })
InterceptRequest(input, approvalGranted) ==
    /\ Len(contexts) < MaxTx
    /\ DoInterceptRequest(
           interceptRequest(policies, input, ModelVersion, "{}", approvalGranted,
                            Len(contexts) + 1, Len(contexts) + 1, diskOk),
           approvalGranted)
    /\ tasks' = Append(tasks, Task("direct", "direct", approvalGranted))
    /\ UNCHANGED <<confirm, result, diskOk, endpoint, policies, message, reply, lastResp>>

\* engine.interceptResponse(context, response) on a context the caller holds
InterceptResponse(i, response) ==
    /\ i \in 1..Len(contexts)
    /\ tasks[i].caller = "direct"
    /\ ~requests[i].threw
    /\ Len(auditLog) < MaxLog
    /\ DoInterceptResponse(i, interceptResponse(contexts[i], response, diskOk))
    /\ UNCHANGED <<confirm, result, diskOk, endpoint, policies, message, reply, requests, tasks>>

\* sendMessageStream once interceptRequest has returned r: a confirmation
\* request, a block message, or the start of turn.run on redactedInput
StreamGoverned(r, t) ==
    /\ DoInterceptRequest(r, t.approval)
    /\ tasks' = Append(tasks,
         IF r.threw
         THEN [t EXCEPT !.outcome = "threw"]
         ELSE IF r.requiresApproval
         THEN [t EXCEPT !.yielded = {"GovernanceConfirmationNeeded"},
                        !.hasValue = TRUE,
                        !.value = ConfirmationValue(r.context),
                        !.outcome = "returned"]
         ELSE IF ~r.proceed
         THEN [t EXCEPT !.yielded = {"GovernanceBlock", "Finished"},
                        !.outcome = "returned"]
         ELSE [t EXCEPT !.pc = "model",
                        !.sent = "redactedInput"])

\* GeminiClient.sendMessageStream from the governance call to the start of
\* turn.run: one synchronous stretch of the generator
SendMessageStream(request, governanceApproval) ==
    /\ Len(contexts) < MaxTx
    /\ StreamGoverned(
           interceptRequest(policies, request, ModelVersion, "prompt_id",
                            governanceApproval, Len(contexts) + 1, Len(contexts) + 1, diskOk),
           Task("stream", "done", governanceApproval))
    /\ UNCHANGED <<confirm, result, diskOk, endpoint, policies, message, reply, lastResp>>

\* a Content event of the model's stream: the turn has recorded the response
\* that carries it and the generator yields the event to the user
StreamChunk(i) ==
    /\ i \in 1..Len(tasks)
    /\ tasks[i].caller = "stream"
    /\ tasks[i].pc = "model"
    /\ tasks' = [tasks EXCEPT ![i].yielded = @ \cup {"Content"},
                              ![i].hasLast = TRUE]
    /\ UNCHANGED <<confirm, result, diskOk, endpoint, policies, message, reply, contexts, requests, auditLog, exports, lastResp>>

\* the generator once interceptResponse on the last response has returned r
\* or raised
StreamValidated(i, r) ==
    /\ DoInterceptResponse(i, r)
    /\ tasks' = [tasks EXCEPT
                   ![i].pc = "done",
                   ![i].yielded = @ \cup {"Finished"},
                   ![i].outcome = IF r.threw THEN "threw" ELSE "returned"]

\* the Finished event: yielded, then interceptResponse on the last recorded
\* response (`response`) when there is one
StreamFinished(i, response) ==
    /\ i \in 1..Len(tasks)
    /\ tasks[i].caller = "stream"
    /\ tasks[i].pc = "model"
    /\ IF tasks[i].hasLast
       THEN StreamValidated(i, interceptResponse(contexts[i], response, diskOk))
       ELSE /\ tasks' = [tasks EXCEPT ![i].pc = "done",
                                      ![i].yielded = @ \cup {"Finished"},
                                      ![i].outcome = "returned"]
            /\ UNCHANGED <<contexts, auditLog, exports, lastResp>>
    /\ UNCHANGED <<confirm, result, diskOk, endpoint, policies, message, reply, requests>>

\* the stream ends with an Error event or an abort: the generator returns
\* without a Finished event
StreamError(i) ==
    /\ i \in 1..Len(tasks)
    /\ tasks[i].caller = "stream"
    /\ tasks[i].pc = "model"
    /\ tasks' = [tasks EXCEPT ![i].pc = "done",
                              ![i].yielded = @ \cup {"Error"},
                              ![i].outcome = "returned"]
    /\ UNCHANGED <<confirm, result, diskOk, endpoint, policies, message, reply, contexts, requests, auditLog, exports, lastResp>>

\* apiCall once interceptRequest has returned r: throw, or the model call
\* with the caller's `contents`
GenerateGoverned(r, t) ==
    /\ DoInterceptRequest(r, FALSE)
    /\ tasks' = Append(tasks,
         IF ~r.proceed
         THEN [t EXCEPT !.outcome = "threw"]
         ELSE [t EXCEPT !.pc = "model",
                        !.sent = "contents"])

\* GeminiClient.generateContent, apiCall up to the await of the model call:
\* interceptRequest is called without options
GenerateContent(contents) ==
    /\ Len(contexts) < MaxTx
    /\ GenerateGoverned(
           interceptRequest(policies, contents, ModelVersion, "modelConfigKey",
                            FALSE, Len(contexts) + 1, Len(contexts) + 1, diskOk),
           Task("generate", "done", FALSE))
    /\ UNCHANGED <<confirm, result, diskOk, endpoint, policies, message, reply, lastResp>>

\* apiCall once interceptResponse has returned r or raised
GenerateValidated(i, r) ==
    /\ DoInterceptResponse(i, r)
    /\ tasks' = [tasks EXCEPT
                   ![i].pc = "done",
                   ![i].hasLast = TRUE,
                   ![i].yielded = IF r.threw \/ ~r.proceed THEN @
                                  ELSE {"Return"},
                   ![i].outcome = IF r.threw \/ ~r.proceed THEN "threw"
                                  ELSE "returned"]

\* the model call resolves: interceptResponse, then return or throw
GenerateReturn(i, response) ==
    /\ i \in 1..Len(tasks)
    /\ tasks[i].caller = "generate"
    /\ tasks[i].pc = "model"
    /\ GenerateValidated(i, interceptResponse(contexts[i], response, diskOk))
    /\ UNCHANGED <<confirm, result, diskOk, endpoint, policies, message, reply, requests>>

\* the model call rejects: apiCall throws before interceptResponse
GenerateFail(i) ==
    /\ i \in 1..Len(tasks)
    /\ tasks[i].caller = "generate"
    /\ tasks[i].pc = "model"
    /\ tasks' = [tasks EXCEPT ![i].pc = "done", ![i].outcome = "threw"]
    /\ UNCHANGED <<confirm, result, diskOk, endpoint, policies, message, reply, contexts, requests, auditLog, exports, lastResp>>

\* calls of the engine by a test or an embedding program
NextApi ==
    \/ \E a \in BOOLEAN : InterceptRequest(message, a)
    \/ \E i \in 1..MaxTx : InterceptResponse(i, reply)

\* steps of the host client
NextHost ==
    \/ \E a \in BOOLEAN : SendMessageStream(message, a)
    \/ \E i \in 1..MaxTx : StreamChunk(i)
    \/ \E i \in 1..MaxTx : StreamFinished(i, reply)
    \/ \E i \in 1..MaxTx : StreamError(i)
    \/ GenerateContent(message)
    \/ \E i \in 1..MaxTx : GenerateReturn(i, reply)
    \/ \E i \in 1..MaxTx : GenerateFail(i)

\* interceptResponse by a caller that takes its transactions one at a time:
\* on the context of its latest interceptRequest call, once
SerialResponse(i, response) ==
    /\ i \in 1..Len(contexts)
    /\ i = Len(contexts)
    /\ ~contexts[i].hasOutput
    /\ InterceptResponse(i, response)

\* calls of the engine by such a caller
NextSerial ==
    \/ \E a \in BOOLEAN : InterceptRequest(message, a)
    \/ \E i \in 1..MaxTx : SerialResponse(i, reply)

\* the audit file stops taking appends (disk full, file or directory made
\* read-only or removed): fs.appendFileSync throws from now on
DiskFails ==
    /\ diskOk
    /\ diskOk' = FALSE
    /\ UNCHANGED <<confirm, result, endpoint, policies, message, reply, contexts, requests, tasks, auditLog, exports, lastResp>>

\* the audit file takes appends again
DiskRecovers ==
    /\ ~diskOk
    /\ diskOk' = TRUE
    /\ UNCHANGED <<confirm, result, endpoint, policies, message, reply, contexts, requests, tasks, auditLog, exports, lastResp>>

\* an export whose failure takes the primary line back
SettleUndoesLine(k, ok) ==
    /\ k \in 1..Len(exports)
    /\ exports[k].status = "pending"
    /\ exports' = [exports EXCEPT ![k].status = IF ok THEN "ok" ELSE "failed"]
    /\ auditLog' = IF ok THEN auditLog ELSE SubSeq(auditLog, 1, Len(auditLog) - 1)
    /\ UNCHANGED <<confirm, result, diskOk, endpoint, policies, message, reply, contexts, requests, tasks, lastResp>>

\* the promise of POST k settles: fulfilled, or rejected and taken by the
\* .catch handler, whose body is empty
ExportSettles(k, ok) ==
    /\ k \in 1..Len(exports)
    /\ exports[k].status = "pending"
    /\ exports' = [exports EXCEPT ![k].status = IF ok THEN "ok" ELSE "failed"]
    /\ UNCHANGED <<confirm, result, diskOk, endpoint, policies, message, reply, contexts, requests, tasks, auditLog, lastResp>>

\* calls of the engine, one transaction at a time, while the audit file and
\* the endpoint come and go
NextSink ==
    \/ \E a \in BOOLEAN : InterceptRequest(message, a)
    \/ \E i \in 1..MaxTx : SerialResponse(i, reply)
    \/ DiskFails
    \/ DiskRecovers
    \/ \E k \in 1..MaxLog, ok \in BOOLEAN : ExportSettles(k, ok)

\* piiFilter.redact(message)
Redact ==
    /\ result.op = "none"
    /\ result' = [op |-> "redact", out |-> redact(message)]
    /\ UNCHANGED <<engine, message, reply, confirm>>

\* piiFilter.redact on the fragments the first call returned
RedactAgain ==
    /\ result.op = "redact"
    /\ result' = [op    |-> "redactAgain",
                  out   |-> result.out,
                  again |-> redact(result.out.redactedParts)]
    /\ UNCHANGED <<engine, message, reply, confirm>>

\* riskClassifier.classify(message)
Classify ==
    /\ result.op = "none"
    /\ result' = [op |-> "classify", out |-> classify(message)]
    /\ UNCHANGED <<engine, message, reply, confirm>>

\* outputGuardrail.validate(reply, riskLevel)
Validate(riskLevel) ==
    /\ result.op = "none"
    /\ result' = [op |-> "validate", riskLevel |-> riskLevel,
                  out |-> validate(reply, riskLevel)]
    /\ UNCHANGED <<engine, message, reply, confirm>>

\* answers of at most this many characters are typed at the question
MaxAnswer == 3

\* a call of confirmHighRiskAction: the session is a terminal or not, and
\* `answer` is the line the user types if asked
InitConfirm ==
    /\ Idle
    /\ message = <<>>
    /\ reply = NoCandidates
    /\ confirm \in [pc     : {"called"},
                     isTTY  : BOOLEAN,
                     answer : UNION { [1..n -> {"y", "Y", "e", "E", "s", "S", "n", " "}] :
                                        n \in 0..MaxAnswer },
                     value  : {FALSE}]

\* confirmHighRiskAction up to its first await: without a terminal the
\* warning goes to stderr and a 5 s timer is started, with one the question
\* is put to the user
confirmHighRiskAction ==
    /\ confirm.pc = "called"
    /\ confirm' = [confirm EXCEPT !.pc = IF ~confirm.isTTY THEN "paused" ELSE "asked"]
    /\ UNCHANGED <<engine, message, reply, result>>

\* the timer fires: return true
PauseElapsed ==
    /\ confirm.pc = "paused"
    /\ confirm' = [confirm EXCEPT !.pc = "resolved", !.value = TRUE]
    /\ UNCHANGED <<engine, message, reply, result>>

\* the callback of rl.question on the line the user typed
Answered ==
    /\ confirm.pc = "asked"
    /\ confirm' = [confirm EXCEPT
                     !.pc = "resolved",
                     !.value = \/ ToLowerCase(confirm.answer) = <<"y">>
                               \/ ToLowerCase(confirm.answer) = <<"y", "e", "s">>]
    /\ UNCHANGED <<engine, message, reply, result>>

Next ==
    \/ NextApi
    \/ NextHost
    \/ NextSerial
    \/ NextSink
    \/ Redact
    \/ RedactAgain
    \/ Classify
    \/ \E riskLevel \in RiskLevels : Validate(riskLevel)
    \/ confirmHighRiskAction
    \/ PauseElapsed
    \/ Answered

Spec == Init /\ [][NextApi]_vars

SpecHost == InitHost /\ [][NextHost]_vars

\* runs of the host client in which the interleaving is what varies: a LOW
\* and a redacted HIGH prompt, under the default policy and under a
\* blocking one
InitConcurrent ==
    /\ InitHost
    /\ message \in { <<TextPart(TxtHello)>>, <<TextPart(TxtEmailFinancial)>> }
    /\ policies \in { DEFAULT_POLICIES,
                       [DEFAULT_POLICIES EXCEPT !.blockHighRisk = TRUE] }

SpecConcurrent == InitConcurrent /\ [][NextHost]_vars

SpecSerial == Init /\ [][NextSerial]_vars

SpecSink == InitSink /\ [][NextSink]_vars

SpecRedact == InitRedact /\ [][Redact \/ RedactAgain]_vars

SpecClassify == InitClassify /\ [][Classify]_vars

SpecConfirm == InitConfirm /\ [][confirmHighRiskAction \/ PauseElapsed \/ Answered]_vars

SpecValidate == InitValidate /\ [][\E riskLevel \in RiskLevels : Validate(riskLevel)]_vars
----------------------------------------------------------------------------
(* Human-in-the-loop gate of the request phase *)

C4_BlockedAndLogged ==
    policies.blockHighRisk =>
        \A i \in 1..Len(requests) :
            contexts[i].riskLevel = "HIGH" =>
                /\ ~requests[i].proceed
                /\ ~requests[i].requiresApproval
                /\ requests[i].hasError
                /\ requests[i].error = ErrRequestBlocked
                /\ requests[i].logAfter = requests[i].logBefore + 1
                /\ Len(auditLog) >= requests[i].logAfter
                /\ auditLog[requests[i].logAfter].requestId = i
                /\ auditLog[requests[i].logAfter].guardrailDecision = "BLOCKED"

C4_Witness ==
    /\ policies.blockHighRisk
    /\ \E i \in 1..Len(requests) :
           /\ contexts[i].riskLevel = "HIGH"
           /\ requests[i].hasError
           /\ requests[i].logAfter = 1
           /\ auditLog[1].guardrailDecision = "BLOCKED"

----------------------------------------------------------------------------
(* Response phase: validation, logging, return *)

\* C5: every call of interceptResponse appends exactly one audit entry,
\* whatever the validator's decision: a step that makes such a call extends
\* the log by one line, which carries the transaction id of the call.
C5_OneEntryPerResponse ==
    [][ lastResp' # lastResp =>
            /\ lastResp'.valid
            /\ lastResp'.logBefore = Len(auditLog)
            /\ Len(auditLog') = Len(auditLog) + 1
            /\ SubSeq(auditLog', 1, Len(auditLog)) = auditLog
            /\ auditLog'[Len(auditLog')].requestId = lastResp'.requestId
            /\ auditLog'[Len(auditLog')].guardrailDecision
                   \in {"APPROVED", "BLOCKED", "FLAGGED_FOR_REVIEW"} ]_vars

\* a second call on flagged output, each call with its own line
C5_Witness ==
    /\ lastResp.valid
    /\ lastResp.logBefore = 1
    /\ Len(auditLog) = 2
    /\ auditLog[1].guardrailDecision = "FLAGGED_FOR_REVIEW"
    /\ auditLog[2].guardrailDecision = "FLAGGED_FOR_REVIEW"

C7_AsStated ==
    /\ lastResp.valid
    /\ contexts[lastResp.requestId].riskLevel = "HIGH"
    /\ HasContent(reply)
    /\ reply.candidates[1].hasParts
    /\ ~Matches(OutputText(reply), "email")
    => /\ ~lastResp.threw
       /\ lastResp.proceed
       /\ contexts[lastResp.requestId].guardrailDecision = "FLAGGED_FOR_REVIEW"
       /\ LET c     == contexts[lastResp.requestId]
              parts == c.output.candidates[1].parts
          IN  /\ Len(parts) >= 1
              /\ TextTruthy(parts[1])
              /\ Len(parts[1].text) >= Len(Warning(c))
              /\ SubSeq(parts[1].text, 1, Len(Warning(c))) = Warning(c)

C9_OutputNeverPersisted ==
    \A k \in 1..Len(auditLog) :
        auditLog[k].output \in {OutputPresent, NoOutput}

\* an entry written for a response that has text
C9_Witness ==
    /\ lastResp.valid
    /\ HasContent(reply)
    /\ reply.candidates[1].hasParts
    /\ OutputText(reply) # <<>>
    /\ auditLog[lastResp.logBefore + 1].output = OutputPresent

\* C10: with piiRedaction enabled, the inputRedacted field of every audit
\* entry is redact's output for the transaction's original message, and no
\* text fragment of it has a span that matches one of the five redaction
\* patterns.
C10_AuditInputRedacted ==
    policies.piiRedaction =>
        \A e \in {<<auditLog[k].inputRedacted,
                     contexts[auditLog[k].requestId].originalInput>> :
                       k \in 1..Len(auditLog)} :
            /\ e[1] = redact(e[2]).redactedParts
            /\ \A p \in 1..Len(e[1]) :
                   TextTruthy(e[1][p]) =>
                       \A q \in 1..Len(PatternKinds) :
                           ~Matches(e[1][p].text, PatternKinds[q])

\* an entry for a message in which several patterns matched
C10_Witness ==
    /\ policies.piiRedaction
    /\ \E k \in 1..Len(auditLog) :
           LET input == contexts[auditLog[k].requestId].originalInput
           IN  /\ Len(input) = 3
               /\ Matches(input[2].text, "phone")
               /\ Matches(input[2].text, "employeeId")
               /\ Matches(input[3].text, "creditCard")
               /\ Matches(input[3].text, "projectCodeword")
               /\ auditLog[k].inputRedacted # input


----------------------------------------------------------------------------
(* The audit sink: failure of the primary append, the secondary export *)

\* the step is an interceptRequest call that reached the block gate
C11_BlockPathStep ==
    /\ Len(contexts') = Len(contexts) + 1
    /\ contexts'[Len(contexts')].guardrailDecision = "BLOCKED"

\* the step is an interceptResponse call
C11_ResponseStep ==
    /\ Len(contexts') = Len(contexts)
    /\ contexts' # contexts

\* C11: when the append to the audit file fails, log raises and the failure
\* reaches the caller: an interceptRequest call on the block path and every
\* interceptResponse call raise, return neither proceed nor error nor
\* decision, and leave the audit file as it was.
C11_AppendFailureReachesCaller ==
    [][ ~diskOk =>
          /\ C11_BlockPathStep =>
                /\ requests'[Len(requests')].threw
                /\ ~requests'[Len(requests')].proceed
                /\ ~requests'[Len(requests')].hasError
                /\ ~requests'[Len(requests')].requiresApproval
                /\ auditLog' = auditLog
          /\ C11_ResponseStep =>
                /\ lastResp'.valid
                /\ lastResp'.threw
                /\ ~lastResp'.logged
                /\ ~lastResp'.proceed
                /\ ~lastResp'.hasError
                /\ lastResp'.decision = "NONE"
                /\ auditLog' = auditLog ]_vars

\* a blocked request and a response have both met a failing audit file
C11_Witness ==
    /\ \E i \in 1..Len(requests) :
          /\ requests[i].threw
          /\ contexts[i].guardrailDecision = "BLOCKED"
          /\ requests[i].logAfter = requests[i].logBefore
    /\ lastResp.valid
    /\ lastResp.threw
    /\ ~lastResp.logged

\* the step settles a POST to the endpoint
C12_SettleStep ==
    /\ Len(exports') = Len(exports)
    /\ exports' # exports

\* the step is an interceptRequest call
C12_RequestStep == Len(requests') = Len(requests) + 1

\* the call result an engine without a configured endpoint gives (log has
\* only the primary append)
C12_RequestResult(a) ==
    RequestRecord(interceptRequest(policies, message, ModelVersion, "{}", a,
                                   Len(contexts) + 1, Len(contexts) + 1, diskOk),
                  a, Len(auditLog))

C12_ResponseResult(i) == interceptResponse(contexts[i], reply, diskOk)

\* C12: a failure of the POST to the configured endpoint never propagates.
\* The step in which a POST settles, fulfilled or rejected, changes neither
\* the audit file nor any context or call result; every line whose POST
\* failed is still in the audit file; and every interceptRequest /
\* interceptResponse call returns what it returns with no endpoint configured,
\* whatever became of the earlier POSTs.
C12_ExportFailureSwallowed ==
    [][ /\ C12_SettleStep =>
              /\ auditLog' = auditLog
              /\ contexts' = contexts
              /\ requests' = requests
              /\ lastResp' = lastResp
        /\ \A k \in 1..Len(exports') :
              exports'[k].status = "failed" =>
                 \E j \in 1..Len(auditLog') : auditLog'[j] = exports'[k].body
        /\ C12_RequestStep =>
              \E a \in BOOLEAN :
                 requests'[Len(requests')] = C12_RequestResult(a)
        /\ C11_ResponseStep =>
              \E i \in 1..Len(contexts) :
                 /\ lastResp'.requestId = i
                 /\ lastResp'.threw = C12_ResponseResult(i).threw
                 /\ lastResp'.logged = C12_ResponseResult(i).logged
                 /\ lastResp'.proceed = C12_ResponseResult(i).proceed
                 /\ lastResp'.hasError = C12_ResponseResult(i).hasError
                 /\ lastResp'.error = C12_ResponseResult(i).error
                 /\ contexts'[i] = C12_ResponseResult(i).context ]_vars

\* a POST has failed, and after it a request was blocked and logged and a
\* response was logged and returned
C12_Witness ==
    /\ Len(exports) = 2
    /\ exports[1].status = "failed"
    /\ exports[2].status = "failed"
    /\ Len(auditLog) = 2
    /\ \E i \in 1..Len(requests) : requests[i].hasError /\ ~requests[i].threw
    /\ lastResp.valid
    /\ lastResp.logged
    /\ ~lastResp.threw

----------------------------------------------------------------------------
(* PIIFilter.redact alone *)

\* fragment i of the message has text in which the email pattern matches
C13_HasEmail(i) ==
    /\ TextTruthy(message[i])
    /\ Matches(message[i].text, "email")

C14_SomeMatch(i) ==
    /\ TextTruthy(message[i])
    /\ \E k \in 1..Len(PatternKinds) : Matches(message[i].text, PatternKinds[k])

\* the fragment returned for fragment i differs from it
C14_Replaced(i) == result.out.redactedParts[i] # message[i]

\* C14: redact returns wasRedacted = true if and only if a replacement
\* occurred in some fragment (the fragment returned differs from the one
\* given); a message in which no pattern matches comes back with the same
\* fragments, wasRedacted = false and an empty reason list.
C14_RedactedIffReplaced ==
    result.op = "redact" =>
        /\ Len(result.out.redactedParts) = Len(message)
        /\ result.out.wasRedacted <=> \E i \in 1..Len(message) : C14_Replaced(i)
        /\ result.out.wasRedacted <=> \E i \in 1..Len(message) : C14_SomeMatch(i)
        /\ (\A i \in 1..Len(message) : ~C14_SomeMatch(i)) =>
              /\ result.out.redactedParts = message
              /\ ~result.out.wasRedacted
              /\ result.out.justifications = <<>>

\* redact has run on a message of three fragments, with text and without,
\* in which nothing matches
C14_Witness ==
    /\ result.op = "redact"
    /\ Len(message) = 3
    /\ \E i \in 1..3 : TextTruthy(message[i])
    /\ \E i \in 1..3 : ~message[i].hasText
    /\ \A i \in 1..3 : ~C14_SomeMatch(i)
    /\ ~result.out.wasRedacted

\* C15: redaction is idempotent: redact on the fragments redact returned
\* returns the same fragments, with wasRedacted = false (and no reasons).
C15_Idempotent ==
    result.op = "redactAgain" =>
        /\ result.again.redactedParts = result.out.redactedParts
        /\ ~result.again.wasRedacted
        /\ result.again.justifications = <<>>

\* redact has run twice on a message in which the first call replaced
\* matches of two or more kinds
C15_Witness ==
    /\ result.op = "redactAgain"
    /\ result.out.wasRedacted
    /\ Len(result.out.justifications) >= 2
    /\ result.out.redactedParts # message

\* pattern kind PatternKinds[k] fired in fragment i: the fragment returned
\* holds its placeholder (no drawn message holds one)
C16_Fired(i, k) ==
    /\ TextTruthy(message[i])
    /\ Includes(result.out.redactedParts[i].text, Placeholder(PatternKinds[k]))

\* the kinds that fired somewhere, in pattern-evaluation order
C16_FiredKinds ==
    SelectSeq([k \in 1..Len(PatternKinds) |-> k],
              LAMBDA k : \E i \in 1..Len(message) : C16_Fired(i, k))

\* the first fragment in which kind k fired
C16_FirstFragment(k) ==
    CHOOSE i \in 1..Len(message) :
        /\ C16_Fired(i, k)
        /\ \A h \in 1..(i - 1) : ~C16_Fired(h, k)

\* the kind a label stands for
C16_KindOf(label) ==
    CHOOSE k \in 1..Len(PatternKinds) : Label(PatternKinds[k]) = label

\* C16 as stated: the reasons are the labels of the kinds that fired, one
\* each, in the fixed order email, phone, employee id, payment card, project
\* codeword, whatever fragments they fired in.
C16_AsStated ==
    result.op = "redact" =>
        result.out.justifications =
            [j \in 1..Len(C16_FiredKinds) |-> Label(PatternKinds[C16_FiredKinds[j]])]

\* C16: the reasons are the labels of the kinds that fired, one each, in the
\* order of first firing: by the first fragment a kind fired in, and within
\* one fragment in the fixed order email, phone, employee id, payment card,
\* project codeword.
C16_ReasonsInFirstFiredOrder ==
    result.op = "redact" =>
        LET js == result.out.justifications
        IN  /\ Len(js) = Len(C16_FiredKinds)
            /\ Range(js) = {Label(PatternKinds[C16_FiredKinds[j]]) : j \in 1..Len(C16_FiredKinds)}
            /\ \A p, q \in 1..Len(js) :
                  p < q =>
                     \/ C16_FirstFragment(C16_KindOf(js[p])) < C16_FirstFragment(C16_KindOf(js[q]))
                     \/ /\ C16_FirstFragment(C16_KindOf(js[p])) = C16_FirstFragment(C16_KindOf(js[q]))
                        /\ C16_KindOf(js[p]) < C16_KindOf(js[q])

\* redact has run on a phone number in the first fragment and an address in
\* the second: the phone label comes first
C16_Witness ==
    /\ result.op = "redact"
    /\ Len(message) = 2
    /\ C16_Fired(1, 2)
    /\ C16_Fired(2, 1)
    /\ result.out.justifications = <<PhoneLabel, EmailLabel>>

\* the fragments the call in this step returned
C17_Returned == result'.out.redactedParts

\* C17: a call of redact returns as many fragments as it was given, in the
\* same order (fragment i returned is fragment i given, redacted on its own:
\* same kind, same non-text payload), returns every non-text fragment
\* unchanged, and leaves the caller's message with the content it had.
C17_FragmentsKept ==
    [][ result'.op = "redact" =>
          /\ message' = message
          /\ Len(C17_Returned) = Len(message)
          /\ \A i \in 1..Len(message) :
                /\ C17_Returned[i].hasText = message[i].hasText
                /\ C17_Returned[i].inlineData = message[i].inlineData
                /\ ~message[i].hasText => C17_Returned[i] = message[i]
                /\ C17_Returned[i] = redact(<<message[i]>>).redactedParts[1] ]_vars

\* redact has run on a message with a non-text fragment between two text
\* fragments and has replaced a match
C17_Witness ==
    /\ result.op = "redact"
    /\ Len(message) = 3
    /\ message[1].hasText
    /\ ~message[2].hasText
    /\ message[3].hasText
    /\ result.out.wasRedacted
    /\ result.out.redactedParts[2] = message[2]

----------------------------------------------------------------------------
(* RiskClassifier.classify alone *)

\* the lower-cased texts of the fragments that have text, joined by spaces
C18_Buffer ==
    ToLowerCase(Join(SelectSeq([i \in 1..Len(message) |-> message[i].text],
                               LAMBDA t : t # <<>>),
                     <<" ">>))

\* the rule table, in evaluation order
C18_Rules ==
    << [keywords |-> {KwConfidential, KwSecret, KwProprietary}, category |-> CatProprietary],
       [keywords |-> {KwHrDecision, KwFireEmployee, KwHiring},  category |-> CatHR],
       [keywords |-> {KwFinancialAdvice, KwInvest, KwStock},    category |-> CatFinancial],
       [keywords |-> {KwMedical, KwDiagnosis},                  category |-> CatMedical] >>

\* rule r has a keyword in the buffer
C18_RuleMatches(r) == \E kw \in C18_Rules[r].keywords : Includes(C18_Buffer, kw)

\* C18: classify decides by the first rule, in the order proprietary
\* information, HR decision, financial advice, medical advice, that has a
\* keyword as a substring of the space-joined lower-cased text of the
\* fragments: that rule's category with level HIGH; (LOW, "General") when no
\* rule has one; and no level other than HIGH and LOW.
C18_FirstRuleWins ==
    result.op = "classify" =>
        /\ result.out.level \in {"HIGH", "LOW"}
        /\ \A r \in 1..Len(C18_Rules) :
              (C18_RuleMatches(r) /\ \A q \in 1..(r - 1) : ~C18_RuleMatches(q)) =>
                 result.out = [level |-> "HIGH", category |-> C18_Rules[r].category]
        /\ (\A r \in 1..Len(C18_Rules) : ~C18_RuleMatches(r)) =>
              result.out = [level |-> "LOW", category |-> CatGeneral]

\* classify has run on a message in which a financial keyword comes before
\* a proprietary-information keyword, in two fragments
C18_Witness ==
    /\ result.op = "classify"
    /\ Len(message) = 2
    /\ Includes(ToLowerCase(message[1].text), KwInvest)
    /\ Includes(ToLowerCase(message[2].text), KwSecret)
    /\ result.out = [level |-> "HIGH", category |-> CatProprietary]

\* C19 as stated: classify("I need to fire an employee") returns
\* (HIGH, "HR Decision") and classify("hello world") returns (LOW, "General").
C19_AsStated ==
    result.op = "classify" =>
        /\ message = <<TextPart(TxtFireAn)>> =>
              result.out = [level |-> "HIGH", category |-> CatHR]
        /\ message = <<TextPart(TxtHello)>> =>
              result.out = [level |-> "LOW", category |-> CatGeneral]

----------------------------------------------------------------------------
(* OutputGuardrail.validate alone *)

\* the response carries no content: no candidates, or a first candidate
\* without content
C20_NoContent ==
    \/ ~reply.hasCandidates
    \/ reply.candidates = <<>>
    \/ ~reply.candidates[1].hasContent

\* the texts of the fragments of the first candidate, joined by spaces
C20_Text ==
    IF reply.candidates[1].hasParts
    THEN Join([i \in 1..Len(reply.candidates[1].parts) |->
                  reply.candidates[1].parts[i].text], <<" ">>)
    ELSE <<>>

\* C20: validate decides every response at every risk level, in this order:
\* no content: APPROVED with no reason; otherwise an email address in the
\* concatenated text: BLOCKED; otherwise risk level HIGH: FLAGGED_FOR_REVIEW
\* with a reason; otherwise APPROVED with no reason.  The call leaves the
\* response as it was.
C20_DecisionOrder ==
    [][ result'.op = "validate" =>
          /\ reply' = reply
          /\ result'.riskLevel \in RiskLevels
          /\ IF C20_NoContent
             THEN /\ result'.out.decision = "APPROVED"
                  /\ ~result'.out.hasReason
             ELSE IF Matches(C20_Text, "email")
             THEN /\ result'.out.decision = "BLOCKED"
                  /\ result'.out.hasReason
                  /\ result'.out.reason = ReasonPII
             ELSE IF result'.riskLevel = "HIGH"
             THEN /\ result'.out.decision = "FLAGGED_FOR_REVIEW"
                  /\ result'.out.hasReason
                  /\ result'.out.reason # <<>>
             ELSE /\ result'.out.decision = "APPROVED"
                  /\ ~result'.out.hasReason ]_vars

\* validate has run at risk level HIGH on a response of two fragments with
\* an address in the second: the address decides
C20_Witness ==
    /\ result.op = "validate"
    /\ result.riskLevel = "HIGH"
    /\ ~C20_NoContent
    /\ Len(reply.candidates[1].parts) = 2
    /\ Matches(reply.candidates[1].parts[2].text, "email")
    /\ result.out.decision = "BLOCKED"

----------------------------------------------------------------------------
(* The request phase: order of the steps, determinism, frame *)

\* C21: interceptRequest redacts, then classifies, then applies the gates.
\* With piiRedaction on, the context holds redact's fragments and the level
\* and category of classify applied to them; with it off, the message as
\* given and its own classification.  The gates act on the stored level.
\* For "My email is a@b.com, financial advice please" under the default
\* policy the redacted text holds [REDACTED_EMAIL], the category is
\* "Financial Advice", and a call without approval returns requiresApproval.
C21_RedactClassifyGate ==
    \A i \in 1..Len(requests) :
        /\ contexts[i].originalInput = message
        /\ contexts[i].redactedInput =
              IF policies.piiRedaction THEN redact(message).redactedParts ELSE message
        /\ [level |-> contexts[i].riskLevel, category |-> contexts[i].riskCategory]
              = classify(contexts[i].redactedInput)
        /\ requests[i].proceed <=>
              ~(contexts[i].riskLevel = "HIGH"
                   /\ (policies.blockHighRisk \/ ~requests[i].approvalGranted))
        /\ (message = <<TextPart(TxtEmailFinancial)>> /\ policies = DEFAULT_POLICIES) =>
              /\ Includes(contexts[i].redactedInput[1].text, EmailPlaceholder)
              /\ contexts[i].riskCategory = CatFinancial
              /\ ~requests[i].approvalGranted => requests[i].requiresApproval

\* a message whose only keyword sits inside an email address: with redaction
\* on it is classified after the address is gone, and admitted
C21_Witness ==
    /\ policies.piiRedaction
    /\ message = <<TextPart(TxtKeywordInEmail)>>
    /\ classify(message).level = "HIGH"
    /\ \E i \in 1..Len(requests) :
          /\ contexts[i].riskLevel = "LOW"
          /\ contexts[i].redactedInput # message
          /\ requests[i].proceed

\* C22 as stated: for every interceptRequest call the host makes, the audit
\* log eventually holds an entry with that call's transaction id.  No step of
\* the host touches a transaction whose call has run to its end, so
\* "eventually" is over once it has: the entry is there by then.
C22_AsStated ==
    \A i \in 1..Len(tasks) :
        tasks[i].pc = "done" =>
            \E k \in 1..Len(auditLog) : auditLog[k].requestId = i

\* the fragments the host handed to the model for transaction i
C23_Sent(i) ==
    IF tasks[i].sent = "redactedInput" THEN contexts[i].redactedInput
    ELSE contexts[i].originalInput

\* C23 as stated: when interceptRequest returned proceed=true, what the host
\* sends to the model is the redacted message of the returned context, in
\* sendMessageStream and in generateContent.
C23_AsStated ==
    \A i \in 1..Len(tasks) :
        (requests[i].proceed /\ tasks[i].sent # "none") =>
            C23_Sent(i) = contexts[i].redactedInput

\* C24 as stated: when interceptResponse returned proceed=false for a
\* transaction's response, the host has not delivered that response's
\* content: sendMessageStream has yielded no Content event of it and
\* generateContent has not returned it.
C24_AsStated ==
    \A i \in 1..Len(tasks) :
        (contexts[i].hasOutput /\ contexts[i].guardrailDecision = "BLOCKED") =>
            /\ "Content" \notin tasks[i].yielded
            /\ "Return" \notin tasks[i].yielded

----------------------------------------------------------------------------
(* The audit file under interleaved transactions *)

\* C25: whatever the interleaving of the transactions in flight, a step
\* leaves the audit file as it is or appends to it exactly one whole entry,
\* the entry of one transaction's context: the file is at all times a
\* sequence of whole entries, one per completed log call, and no line holds
\* parts of two entries.
C25_WholeLines ==
    [][ \/ auditLog' = auditLog
        \/ \E i \in 1..Len(contexts') :
              auditLog' = Append(auditLog, LogEntry(contexts'[i])) ]_vars

\* two transactions were in flight together and the later one was logged
\* first
C25_Witness ==
    /\ Len(auditLog) = 2
    /\ auditLog[1].requestId = 2
    /\ auditLog[2].requestId = 1
    /\ auditLog[1] = LogEntry(contexts[2])
    /\ auditLog[2] = LogEntry(contexts[1])

----------------------------------------------------------------------------
(* Reproducible decisions *)

\* a context without the two fields that differ from call to call
C26_Decided(context) == [context EXCEPT !.requestId = 0, !.timestamp = 0]

\* the interceptRequest call of this step and an earlier call i with the same
\* approvalGranted (message and policy are those of the run) agree
C26_SameRequest(i) ==
    LET n == Len(requests')
    IN  requests[i].approvalGranted = requests'[n].approvalGranted =>
           /\ requests'[n].proceed = requests[i].proceed
           /\ requests'[n].requiresApproval = requests[i].requiresApproval
           /\ requests'[n].hasError = requests[i].hasError
           /\ requests'[n].error = requests[i].error
           /\ contexts'[n].riskLevel = contexts[i].riskLevel
           /\ contexts'[n].riskCategory = contexts[i].riskCategory
           /\ contexts'[n].redactedInput = contexts[i].redactedInput
           /\ ~contexts[i].hasOutput =>
                 contexts'[n].justification = contexts[i].justification

\* the interceptResponse call of this step, on context i, and the call on an
\* equal context j with the same response agree
C26_SameResponse(i, j) ==
    C26_Decided(contexts[j]) = C26_Decided(contexts[i]) =>
       /\ interceptResponse(contexts[j], reply, diskOk).proceed = lastResp'.proceed
       /\ interceptResponse(contexts[j], reply, diskOk).hasError = lastResp'.hasError
       /\ interceptResponse(contexts[j], reply, diskOk).error = lastResp'.error
       /\ interceptResponse(contexts[j], reply, diskOk).threw = lastResp'.threw
       /\ interceptResponse(contexts[j], reply, diskOk).context.guardrailDecision
             = contexts'[i].guardrailDecision

----------------------------------------------------------------------------
(* The policy *)

\* C27: the policy is fixed at construction.  No interceptRequest or
\* interceptResponse call, no log call they make (whether the append succeeds
\* or fails) and no settling export changes any of the three policy flags.
C27_PolicyFixed == [][policies' = policies]_vars

\* under a policy other than the default, one request has been blocked and
\* logged, a second has been made and a response has been validated
C27_Witness ==
    /\ policies # DEFAULT_POLICIES
    /\ policies.blockHighRisk
    /\ Len(requests) = 2
    /\ \E i \in 1..Len(requests) : requests[i].logAfter = requests[i].logBefore + 1
    /\ lastResp.valid
    /\ Len(auditLog) >= 2

----------------------------------------------------------------------------
(* Transaction ids *)

\* C28: every interceptRequest call allocates a new transaction id, a retry
\* after requiresApproval included; in the host's use (interceptResponse at
\* most once per admitted context, never on a blocked one) no two entries of
\* the audit log carry the same requestId.
C28_FreshIds ==
    /\ \A i, j \in 1..Len(contexts) :
          i # j => contexts[i].requestId # contexts[j].requestId
    /\ \A k, l \in 1..Len(auditLog) :
          k # l => auditLog[k].requestId # auditLog[l].requestId

\* the first call asked for approval, the retry with approval was admitted
\* under a new id and is the one the log holds
C28_Witness ==
    /\ Len(requests) = 2
    /\ requests[1].requiresApproval
    /\ ~requests[1].approvalGranted
    /\ requests[2].approvalGranted
    /\ requests[2].proceed
    /\ contexts[2].hasOutput
    /\ contexts[1].requestId # contexts[2].requestId
    /\ Len(auditLog) = 1
    /\ auditLog[1].requestId = contexts[2].requestId

----------------------------------------------------------------------------
(* The request phase and the audit log *)

C30_BlockBeforeApproval ==
    \A i \in 1..Len(requests) :
       (/\ policies.blockHighRisk
        /\ contexts[i].riskLevel = "HIGH"
        /\ requests[i].approvalGranted) =>
          /\ ~requests[i].proceed
          /\ ~requests[i].requiresApproval
          /\ requests[i].hasError
          /\ requests[i].error = ErrRequestBlocked
          /\ contexts[i].guardrailDecision = "BLOCKED"
          /\ ~contexts[i].hasOutput
          /\ requests[i].logAfter = requests[i].logBefore + 1
          /\ auditLog[requests[i].logAfter] = LogEntry(contexts[i])
          /\ tasks[i].sent = "none"
          /\ "Content" \notin tasks[i].yielded
          /\ "Return" \notin tasks[i].yielded

\* a HIGH-risk request blocked without approval is made again with approval
\* and is blocked again
C30_Witness ==
    /\ policies.blockHighRisk
    /\ Len(requests) = 2
    /\ contexts[1].riskLevel = "HIGH"
    /\ ~requests[1].approvalGranted
    /\ ~requests[1].proceed
    /\ requests[2].approvalGranted
    /\ ~requests[2].proceed
    /\ contexts[2].guardrailDecision = "BLOCKED"
    /\ tasks[2].sent = "none"
    /\ Len(auditLog) = 2

----------------------------------------------------------------------------
(* The justification *)

\* s is a prefix of t
C31_IsPrefix(s, t) == Len(s) <= Len(t) /\ SubSeq(t, 1, Len(s)) = s

\* the justification of context i after this step, given what it was (j) and
\* what the validator said of the response (v)
C31_Appended(i, j, v) ==
    /\ C31_IsPrefix(j, contexts'[i].justification)
    /\ (v.hasReason /\ j # <<>>) =>
          contexts'[i].justification = j \o <<";", " ">> \o v.reason
    /\ (v.hasReason /\ j = <<>>) => contexts'[i].justification = v.reason
    /\ ~v.hasReason => contexts'[i].justification = j

\* C31: the justification only accumulates.  After interceptResponse the
\* context's justification has the request-phase justification as a prefix:
\* a validator reason is appended after the separator "; " when the
\* justification was non-empty and becomes the whole justification when it
\* was empty; with no validator reason the justification is unchanged.
C31_JustificationAccumulates ==
    [][ C11_ResponseStep =>
          C31_Appended(lastResp'.requestId,
                       contexts[lastResp'.requestId].justification,
                       validate(reply, contexts[lastResp'.requestId].riskLevel)) ]_vars

\* a redacted request whose response was blocked: the justification is the
\* redaction note, the separator and the validator's reason
C31_Witness ==
    \E i \in 1..Len(contexts) :
       /\ contexts[i].hasOutput
       /\ contexts[i].guardrailDecision = "BLOCKED"
       /\ RequestJustification(policies, redact(message)) # <<>>
       /\ contexts[i].justification =
             RequestJustification(policies, redact(message)) \o <<";", " ">> \o ReasonPII

----------------------------------------------------------------------------
(* The audit file *)

\* the log call of this step, if there was one, appended its line
C32_LogSucceeded ==
    \/ C12_RequestStep /\ requests'[Len(requests')].logAfter = Len(auditLog) + 1
    \/ C11_ResponseStep /\ lastResp'.logged

\* C32: the audit log is append-only.  Every step leaves the lines written
\* so far as an unchanged prefix of the log (also when the append fails, the
\* audit file comes back, or an export settles), and each successful log
\* call extends the log by exactly one line.
C32_AppendOnly ==
    [][ /\ Len(auditLog') >= Len(auditLog)
        /\ SubSeq(auditLog', 1, Len(auditLog)) = auditLog
        /\ Len(auditLog') <= Len(auditLog) + 1
        /\ C32_LogSucceeded <=> Len(auditLog') = Len(auditLog) + 1 ]_vars

\* a first line was written, an append failed, and a later call wrote the
\* second line after the first
C32_Witness ==
    /\ Len(auditLog) = 2
    /\ auditLog[1] # auditLog[2]
    /\ \E i \in 1..Len(requests) : requests[i].threw
    /\ lastResp.valid
    /\ lastResp.logged
    /\ lastResp.logBefore = 1

----------------------------------------------------------------------------
(* The secondary export *)

\* the step starts a POST to the endpoint
C33_ExportStarted == Len(exports') = Len(exports) + 1

\* the step appends a line to the audit file
C33_LineAppended == Len(auditLog') = Len(auditLog) + 1

\* C33: in log the primary append completes before the secondary export is
\* started: a POST is started only in a step that has appended its line, only
\* when an endpoint is configured, and with that line as its body; a failed
\* append starts none.  log returns without waiting for the outcome: the
\* POST is still pending when the call that started it has returned.
C33_AppendThenExport ==
    [][ /\ C33_ExportStarted =>
              /\ endpoint
              /\ C33_LineAppended
              /\ SubSeq(exports', 1, Len(exports)) = exports
              /\ exports'[Len(exports')].body = auditLog'[Len(auditLog')]
              /\ exports'[Len(exports')].status = "pending"
              /\ C12_RequestStep => ~requests'[Len(requests')].threw
              /\ C11_ResponseStep => lastResp'.logged
        /\ C33_LineAppended => (endpoint <=> C33_ExportStarted)
        /\ ~C33_LineAppended => Len(exports') = Len(exports) ]_vars

\* with an endpoint configured two calls have logged and returned, the
\* second after a failed append, and both POSTs are still pending
C33_Witness ==
    /\ endpoint
    /\ Len(auditLog) = 2
    /\ Len(exports) = 2
    /\ exports[1].body = auditLog[1]
    /\ exports[2].body = auditLog[2]
    /\ exports[1].status = "pending"
    /\ exports[2].status = "pending"
    /\ \E i \in 1..Len(requests) : requests[i].threw
    /\ lastResp.valid
    /\ lastResp.logged
    /\ lastResp.proceed

----------------------------------------------------------------------------
(* Transactions in flight together *)

\* what the interceptRequest call of transaction n returns when the
\* transactions run one after the other: the call on its own arguments
C34_RequestAlone(n) ==
    interceptRequest(policies, message, contexts'[n].modelVersion,
                     contexts'[n].modelParams, requests'[n].approvalGranted,
                     n, n, TRUE)

\* what the interceptResponse call of transaction i returns in that case:
\* the call on the context its own interceptRequest call returned
C34_ResponseAlone(i) ==
    interceptResponse(
        interceptRequest(policies, message, contexts[i].modelVersion,
                         contexts[i].modelParams, requests[i].approvalGranted,
                         i, i, TRUE).context,
        reply, TRUE)

\* the interceptRequest call of this step returns what it returns alone and
\* no other transaction is touched
C34_RequestIndependent(n, r) ==
    /\ contexts'[n] = r.context
    /\ requests'[n].proceed = r.proceed
    /\ requests'[n].requiresApproval = r.requiresApproval
    /\ requests'[n].hasError = r.hasError
    /\ requests'[n].error = r.error
    /\ r.logged => auditLog'[Len(auditLog')] = LogEntry(r.context)
    /\ \A j \in 1..Len(contexts) :
          contexts'[j] = contexts[j] /\ requests'[j] = requests[j]

\* the interceptResponse call of this step, on transaction i, returns what it
\* returns alone and no other transaction is touched
C34_ResponseIndependent(i, r) ==
    /\ contexts'[i] = r.context
    /\ lastResp'.proceed = r.proceed
    /\ lastResp'.hasError = r.hasError
    /\ lastResp'.error = r.error
    /\ lastResp'.threw = r.threw
    /\ auditLog'[Len(auditLog')] = r.entry
    /\ \A j \in 1..Len(contexts) : j # i => contexts'[j] = contexts[j]

----------------------------------------------------------------------------
(* The confirmation request of sendMessageStream *)

\* sendMessageStream call i got requiresApproval from interceptRequest
C35_Refused(i) == tasks[i].caller = "stream" /\ requests[i].requiresApproval

\* call i has ended with the one confirmation event and nothing else: the
\* model was not called, interceptResponse was not called, nothing is logged
C35_EndsTurn(i) ==
    /\ tasks[i].yielded = {"GovernanceConfirmationNeeded"}
    /\ tasks[i].hasValue
    /\ tasks[i].value.riskLevel = contexts[i].riskLevel
    /\ tasks[i].value.riskCategory = contexts[i].riskCategory
    /\ tasks[i].pc = "done"
    /\ tasks[i].outcome = "returned"
    /\ tasks[i].sent = "none"
    /\ ~tasks[i].hasLast
    /\ ~contexts[i].hasOutput
    /\ contexts[i].guardrailDecision = "NONE"
    /\ \A k \in 1..Len(auditLog) : auditLog[k].requestId # contexts[i].requestId

\* a HIGH-risk prompt reaches the model only in a call made with approval
C35_ModelNeedsApproval ==
    \A i \in 1..Len(tasks) :
       (tasks[i].caller = "stream" /\ contexts[i].riskLevel = "HIGH"
          /\ tasks[i].sent # "none") => tasks[i].approval

----------------------------------------------------------------------------
(* The outcomes of the request phase *)

\* the three outcomes of a result r with context c
C36_Blocked(r, c) ==
    /\ ~r.proceed
    /\ r.hasError
    /\ r.error # <<>>
    /\ ~r.requiresApproval
    /\ c.guardrailDecision = "BLOCKED"

C36_NeedsApproval(r, c) ==
    /\ ~r.proceed
    /\ r.requiresApproval
    /\ ~r.hasError
    /\ c.guardrailDecision = "NONE"

C36_Admitted(r, c) ==
    /\ r.proceed
    /\ ~r.hasError
    /\ ~r.requiresApproval
    /\ c.guardrailDecision = "NONE"

\* exactly one of the three
C36_OneOutcome(r, c) ==
    /\ C36_Blocked(r, c) \/ C36_NeedsApproval(r, c) \/ C36_Admitted(r, c)
    /\ ~(C36_Blocked(r, c) /\ C36_NeedsApproval(r, c))
    /\ ~(C36_Blocked(r, c) /\ C36_Admitted(r, c))
    /\ ~(C36_NeedsApproval(r, c) /\ C36_Admitted(r, c))
    /\ ~(r.proceed /\ r.requiresApproval)

\* C36: every result interceptRequest returns is exactly one of BLOCKED
\* (proceed false, error set, no requiresApproval, context decision BLOCKED),
\* NEEDS_APPROVAL (proceed false, requiresApproval true, no error, no
\* decision) and ADMITTED (proceed true, no error, no requiresApproval, no
\* decision); proceed and requiresApproval are never both true.  A call in
\* which log raises returns no result.
C36_ThreeOutcomes ==
    [][ (C12_RequestStep /\ ~requests'[Len(requests')].threw) =>
           C36_OneOutcome(requests'[Len(requests')], contexts'[Len(requests')]) ]_vars

\* the same HIGH-risk message was first held for approval and then, with
\* approval, admitted
C36_Witness ==
    /\ Len(requests) = 2
    /\ C36_NeedsApproval(requests[1], contexts[1])
    /\ requests[2].approvalGranted
    /\ C36_Admitted(requests[2], contexts[2])
    /\ contexts[2].riskLevel = "HIGH"

----------------------------------------------------------------------------
(* The decision in the audit entries *)

\* C37: every audit entry the engine writes has a guardrailDecision among
\* APPROVED, BLOCKED and FLAGGED_FOR_REVIEW: no context is logged with its
\* decision unset.  An entry written by interceptRequest has BLOCKED and the
\* output marker 'No Output'.
C37_DecidedEntries ==
    [][ C33_LineAppended =>
          /\ auditLog'[Len(auditLog')].guardrailDecision
                \in {"APPROVED", "BLOCKED", "FLAGGED_FOR_REVIEW"}
          /\ C12_RequestStep =>
                /\ auditLog'[Len(auditLog')].guardrailDecision = "BLOCKED"
                /\ auditLog'[Len(auditLog')].output = "No Output" ]_vars

\* the log holds an entry of the request phase, BLOCKED with no output, and
\* after it an entry of the response phase with the validator's decision
C37_Witness ==
    /\ Len(auditLog) = 2
    /\ requests[1].logAfter = 1
    /\ auditLog[1].guardrailDecision = "BLOCKED"
    /\ auditLog[1].output = "No Output"
    /\ lastResp.valid
    /\ lastResp.logged
    /\ auditLog[2].guardrailDecision = "FLAGGED_FOR_REVIEW"
    /\ auditLog[2].output = "Generated Content Present"

----------------------------------------------------------------------------
(* interceptResponse over the shapes of a response *)

\* the fragments of the response as given and as the call left them
C38_Given == reply.candidates[1].parts

C38_Left == contexts[lastResp.requestId].output.candidates[1].parts

\* the banner sits on the first text fragment, or is a new leading fragment,
\* and every other fragment is as it was
C38_BannerPlaced(w) ==
    IF Len(C38_Given) >= 1 /\ TextTruthy(C38_Given[1])
    THEN /\ Len(C38_Left) = Len(C38_Given)
         /\ C38_Left[1].text = w \o C38_Given[1].text
         /\ \A k \in 2..Len(C38_Given) : C38_Left[k] = C38_Given[k]
    ELSE /\ Len(C38_Left) = Len(C38_Given) + 1
         /\ C38_Left[1].text = w
         /\ \A k \in 1..Len(C38_Given) : C38_Left[k + 1] = C38_Given[k]

\* C38 (as stated): when the audit write succeeds interceptResponse returns
\* a result and does not raise, whatever the shape of the response (no
\* candidates, no content, an empty fragment list, a non-text or empty first
\* fragment); when the decision is FLAGGED_FOR_REVIEW and the response has a
\* fragment list, the banner is prepended onto the first text fragment or
\* inserted as a new leading fragment and the other fragments keep their
\* content and order.
C38_AsStated ==
    (lastResp.valid /\ lastResp.logged) =>
        /\ ~lastResp.threw
        /\ (/\ contexts[lastResp.requestId].guardrailDecision = "FLAGGED_FOR_REVIEW"
            /\ HasContent(reply)
            /\ reply.candidates[1].hasParts) =>
               C38_BannerPlaced(Warning(contexts[lastResp.requestId]))

----------------------------------------------------------------------------
(* The requireHumanReview flag *)

\* the result of the interceptRequest call of this step on an engine whose
\* policy differs in requireHumanReview alone
C39_OtherEngine(n) ==
    interceptRequest([policies EXCEPT !.requireHumanReview = ~@], message,
                     contexts'[n].modelVersion, contexts'[n].modelParams,
                     requests'[n].approvalGranted, n, n, diskOk)

\* that engine returns, stores and logs what this one does
C39_SameAs(n, r) ==
    /\ contexts'[n] = r.context
    /\ requests'[n].threw = r.threw
    /\ requests'[n].proceed = r.proceed
    /\ requests'[n].requiresApproval = r.requiresApproval
    /\ requests'[n].hasError = r.hasError
    /\ requests'[n].error = r.error
    /\ r.logged <=> C33_LineAppended
    /\ r.logged => auditLog'[Len(auditLog')] = LogEntry(r.context)
    /\ requests'[n].proceed <=>
          ~(contexts'[n].riskLevel = "HIGH"
              /\ (policies.blockHighRisk \/ ~requests'[n].approvalGranted))

\* C39: the outcome of interceptRequest and interceptResponse does not
\* depend on the requireHumanReview flag.  An engine that differs in that
\* flag alone returns the same result, builds the same context and writes
\* the same audit entry at every interceptRequest call, so that the contexts
\* handed to interceptResponse, which reads no policy flag, are the same
\* too; a request that returns is admitted exactly when it is not HIGH-risk
\* or when blockHighRisk is off and approval was granted.
C39_ReviewFlagUnread ==
    [][ C12_RequestStep =>
           C39_SameAs(Len(requests'), C39_OtherEngine(Len(requests'))) ]_vars

\* with requireHumanReview off a HIGH-risk request was still held for
\* approval, then admitted with approval and its response flagged for review
C39_Witness ==
    /\ ~policies.requireHumanReview
    /\ ~policies.blockHighRisk
    /\ Len(requests) = 2
    /\ requests[1].requiresApproval
    /\ requests[2].proceed
    /\ lastResp.valid
    /\ lastResp.requestId = 2
    /\ contexts[2].guardrailDecision = "FLAGGED_FOR_REVIEW"

----------------------------------------------------------------------------
(* confirmHighRiskAction *)

\* the user was asked and typed y or yes, in any case of letters
C40_Affirmed ==
    /\ confirm.isTTY
    /\ ToLowerCase(confirm.answer) \in { <<"y">>, <<"y", "e", "s">> }

\* C40 (as stated): confirmHighRiskAction resolves to true only after an
\* explicit affirmative answer of the user ('y' or 'yes', case-insensitive);
\* every other answer, and a session in which no answer can be obtained,
\* resolves to false.
C40_AsStated ==
    confirm.pc = "resolved" => (confirm.value <=> C40_Affirmed)
====
